---- MODULE Spec2Model ----
(***************************************************************************)
(* Frame-accurate random access into an H.265 stream: the frame index     *)
(* built by open_h265_video, the GOP cache of read_h265_frame and the     *)
(* range decoder of read_h265_frames, driven against a demuxer and a      *)
(* decoder that reorders pictures.                                        *)
(***************************************************************************)
EXTENDS Integers, Sequences, FiniteSets, TLC

VARIABLES
    stream,     \* the container: packets in file (decode) order, timing, decoder delay
    handle,     \* video_info as returned by open: status, error id, num_frames, dts, pts_increment
    cache,      \* H265FrameCache: frames, num_frames, start_frame, is_grayscale, frame_size
    dec,        \* demuxer read position and decoder state kept in fmt_ctx / codec_ctx
    last,       \* the last call: operation, arguments, outcome, returned bytes
    scan,       \* one run of check_hevc_packet_for_open_gop: its input and its result
    calls,      \* how many read requests the handle has served
    res,        \* what the calls so far allocated and did not free, by the name of the pointer
    run,        \* a call followed loop turn by loop turn: where it stands and its loop variables
    writer      \* WriterState behind state_ptr, the frames the encoder accepted, the last write

vars == <<stream, handle, cache, dec, last, scan, calls, res, run, writer>>

----------------------------------------------------------------------------
(* Bounds of the model *)

MaxFrames == 3        \* longest stream of the read specification
MaxCalls == 2        \* most read requests made on one handle
MaxScanLen == 6      \* most bytes of a packet given to the scanner as it is
MaxWrites == 3       \* most write calls made on one writer
MaxBatch == 2        \* most frames given to one write_h265_frames call
MaxRuns == 1         \* most read requests followed turn by turn
MaxDelay == 1         \* largest number of pictures the decoder holds back
MaxOpenPkts == 3      \* longest stream of the index-building specification
MaxOpenPts == 3       \* largest presentation timestamp of those streams
MaxUnits == 2         \* most sub-units in a scanned packet
Width == 3            \* picture width in pixels
Height == 2           \* picture height in pixels

----------------------------------------------------------------------------
(* Sequences *)

Slice(s, from, n) == [ i \in 1..n |-> s[from + i - 1] ]

Min(S) == CHOOSE x \in S : \A y \in S : x <= y

----------------------------------------------------------------------------
(* C integer arithmetic *)

\* A loop of the program over the places lo..hi in order: Body is one
\* iteration, and an iteration that sets stop (a break, an error return) ends
\* the loop.  The places are walked by halves so that long streams evaluate
\* without deep nesting.
RECURSIVE Loop(_, _, _, _)
Loop(Body(_, _), s, lo, hi) ==
    IF lo > hi \/ s.stop THEN s
    ELSE IF lo = hi THEN Body(s, lo)
    ELSE Loop(Body, Loop(Body, s, lo, (lo + hi) \div 2), (lo + hi) \div 2 + 1, hi)

\* return -1 out of a loop: the loop ends where the error occurred
StopOnError(s) == IF s.ret < 0 THEN [s EXCEPT !.stop = TRUE] ELSE s

Abs(a) == IF a >= 0 THEN a ELSE -a

\* a / b of C for b # 0: the quotient truncated toward zero
CDiv(a, b) ==
    IF (a >= 0) = (b > 0) THEN Abs(a) \div Abs(b) ELSE -(Abs(a) \div Abs(b))

\* a % b of C for b # 0: the remainder has the sign of the dividend
CRem(a, b) == IF a >= 0 THEN a % Abs(b) ELSE -((-a) % Abs(b))

\* INT64_MIN = -2^63, the value of AV_NOPTS_VALUE, is kept apart from the small
\* timestamps; its quotient and remainder are computed by long division of 2^63,
\* the number 1 0...0 (63 zeros), by b, bit by bit from the top: r is the
\* running remainder and bits the low 32 quotient bits so far, most significant
\* first.  Step j handles bit 63 - j.
LongDivStep(s, j, b) ==
    LET r2 == 2 * s.r + (IF j = 0 THEN 1 ELSE 0)
        bit == IF r2 >= b THEN 1 ELSE 0
    IN [r |-> IF r2 >= b THEN r2 - b ELSE r2,
        bits |-> IF 63 - j < 32 THEN Append(s.bits, bit) ELSE s.bits,
        stop |-> FALSE]

LongDiv(b) ==
    Loop(LAMBDA s, j : LongDivStep(s, j, b), [r |-> 0, bits |-> <<>>, stop |-> FALSE], 0, 63)

RECURSIVE BitsValue(_, _)
BitsValue(bits, acc) ==
    IF bits = <<>> THEN acc ELSE BitsValue(Tail(bits), 2 * acc + Head(bits))

\* The low 32 bits of -(x), x given by its 32 low bits: the int a 64-bit value
\* is cut to by (int).  Two's complement: invert every bit and add one.
NegLow32(bits) ==
    LET hi == BitsValue(SubSeq(bits, 1, 16), 0)
        lo == BitsValue(SubSeq(bits, 17, 32), 0)
        nlo == (65536 - lo) % 65536
        nhi == IF lo = 0 THEN (65536 - hi) % 65536 ELSE 65535 - hi
    IN IF nhi >= 32768 THEN (nhi - 65536) * 65536 + nlo ELSE nhi * 65536 + nlo

\* pts % pts_increment for a packet or picture timestamp
PtsRem(ts, inc) ==
    IF ts.nopts THEN -(LongDiv(inc).r) ELSE CRem(ts.v, inc)

\* (int)(pts / pts_increment)
FrameIdxOf(ts, inc) ==
    IF ts.nopts THEN NegLow32(LongDiv(inc).bits)
    ELSE CDiv(ts.v, inc)

\* The exact quotient pts / pts_increment equals frame number i
PresentsFrame(ts, inc, i) == ~ts.nopts /\ ts.v = i * inc

Ts(v) == [nopts |-> FALSE, v |-> v]
NoPts == [nopts |-> TRUE, v |-> 0]

\* Timestamps in 64-bit order
TsLess(a, b) == IF a.nopts THEN ~b.nopts ELSE (~b.nopts /\ a.v < b.v)

----------------------------------------------------------------------------
(* Pixel layouts.  A byte stands for (picture, y, x, channel): the value   *)
(* sws_scale gives pixel (y, x) of the picture, channel 0 for GRAY8 and    *)
(* 1..3 for the R, G, B of RGB24, all packed into one number.  The picture *)
(* is named by its packet's place in the file (1, 2, ...).  ZeroByte is    *)
(* the content of a freshly created mxArray.                               *)

ZeroByte == 0

Pix(p, gray, y, x, c) ==
    ((p * Height + y) * Width + x) * 4 + (IF gray THEN 0 ELSE c + 1)

FrameSize(gray) == IF gray THEN Width * Height ELSE Width * Height * 3

\* copy_frame_rowmajor: rows of the converted picture, one after the other
CopyFrameRowMajor(p, gray) ==
    IF gray
    THEN [ i \in 1..(Width * Height) |->
             Pix(p, TRUE, (i - 1) \div Width, (i - 1) % Width, 0) ]
    ELSE [ i \in 1..(Width * Height * 3) |->
             LET row_bytes == Width * 3
                 y == (i - 1) \div row_bytes
                 j == (i - 1) % row_bytes
             IN Pix(p, FALSE, y, j \div 3, j % 3) ]

\* convert_frame_to_matlab: column-major, colour planes one after the other
ConvertFrameToMatlab(p, gray) ==
    IF gray
    THEN [ i \in 1..(Width * Height) |->
             LET x == (i - 1) \div Height
                 y == (i - 1) % Height
             IN Pix(p, TRUE, y, x, 0) ]
    ELSE [ i \in 1..(Width * Height * 3) |->
             LET plane_size == Height * Width
                 c == (i - 1) \div plane_size
                 matlab_idx == (i - 1) % plane_size
                 x == matlab_idx \div Height
                 y == matlab_idx % Height
             IN Pix(p, FALSE, y, x, c) ]

\* permute(rowmajor, [2 1 3]) of a Width x Height x n array, and
\* permute(rowmajor, [3 2 1 4]) of a 3 x Width x Height x n array
PermuteToColumnMajor(buf, gray, n) ==
    LET fs == FrameSize(gray)
    IN [ i \in 1..(n * fs) |->
           LET f == (i - 1) \div fs
               r == (i - 1) % fs
           IN IF gray
              THEN LET x == r \div Height
                       y == r % Height
                   IN buf[f * fs + y * Width + x + 1]
              ELSE LET c == r \div (Height * Width)
                       x == (r % (Height * Width)) \div Height
                       y == r % Height
                   IN buf[f * fs + y * Width * 3 + x * 3 + c + 1] ]

\* memcpy(dst, src + idx * frame_size, frame_size) into a zeroed array of
\* dst_size bytes: what the array holds afterwards.  Bytes copied beyond
\* dst_size land outside the array.
CopyOut(src, idx, frame_size, dst_size) ==
    [ i \in 1..dst_size |->
        IF i <= frame_size THEN src[idx * frame_size + i] ELSE ZeroByte ]

----------------------------------------------------------------------------
(* check_hevc_packet_for_open_gop *)

HEVC_NAL_RASL_N == 8
HEVC_NAL_RASL_R == 9
HEVC_NAL_BLA_W_LP == 16
HEVC_NAL_BLA_W_RADL == 17
HEVC_NAL_BLA_N_LP == 18
HEVC_NAL_IDR_W_RADL == 19
HEVC_NAL_CRA_NUT == 21
HEVC_NAL_TRAIL_R == 1
HEVC_NAL_AUD == 35

OpenGopTypes ==
    { HEVC_NAL_CRA_NUT, HEVC_NAL_BLA_W_LP, HEVC_NAL_BLA_W_RADL,
      HEVC_NAL_BLA_N_LP, HEVC_NAL_RASL_N, HEVC_NAL_RASL_R }

IntMax == 2147483647

\* a + b in 32-bit two's complement
Add32(a, b) ==
    IF a >= 0 /\ b >= 0 /\ a > IntMax - b THEN ((a - IntMax) - 1) + ((b - IntMax) - 1)
    ELSE IF a < 0 /\ b < 0 /\ a < (-IntMax - 1) - b THEN ((a + IntMax) + 1) + ((b + IntMax) + 1)
    ELSE a + b

\* (n << 8) | b in 32-bit two's complement
Shl8Or(n, b) ==
    LET low == n % 16777216
    IN IF low >= 8388608 THEN (low - 16777216) * 256 + b ELSE low * 256 + b

\* the big-endian NAL unit length read from data[pos .. pos + length_size - 1]
RECURSIVE ReadNalSize(_, _, _, _, _)
ReadNalSize(data, pos, length_size, i, nal_size) ==
    IF i >= length_size THEN nal_size
    ELSE ReadNalSize(data, pos, length_size, i + 1, Shl8Or(nal_size, data[pos + i + 1]))

\* The loop of check_hevc_packet_for_open_gop from position pos.  ret is the
\* NAL unit type found, or -1; oob tells that the loop came to a position
\* outside [0, size).
RECURSIVE ScanFrom(_, _, _, _)
ScanFrom(data, size, length_size, pos) ==
    IF ~(Add32(pos, length_size) < size) THEN [ret |-> -1, oob |-> FALSE]
    ELSE IF pos < 0 THEN [ret |-> -1, oob |-> TRUE]
    ELSE
      LET nal_size == ReadNalSize(data, pos, length_size, 0, 0)
          pos2 == pos + length_size
      IN IF nal_size <= 0 \/ Add32(pos2, nal_size) > size
         THEN [ret |-> -1, oob |-> FALSE]
         ELSE LET nal_unit_type == (data[pos2 + 1] \div 2) % 64
              IN IF nal_unit_type \in OpenGopTypes
                 THEN [ret |-> nal_unit_type, oob |-> FALSE]
                 ELSE ScanFrom(data, size, length_size, Add32(pos2, nal_size))

check_hevc_packet_for_open_gop(data, size, length_size) ==
    ScanFrom(data, size, length_size, 0)

\* pos + nal_size > size for ints.  When the sum is outside the range of int
\* the addition is undefined: the build wraps it, or it reasons with the
\* exact sum.
SumExceeds(a, b, size, wraps) == IF wraps THEN Add32(a, b) > size ELSE b > size - a

\* The loop of check_hevc_packet_for_open_gop with the byte positions it
\* reads: reads is the set of indexes into data read so far (0-based), pos
\* the position the function ends with.  A read outside [0, size) ends the
\* account: what lies there is not the packet's.
RECURSIVE ScanLoop(_, _, _, _, _, _)
ScanLoop(data, size, length_size, pos, wraps, reads) ==
    IF ~(Add32(pos, length_size) < size)
    THEN [ret |-> -1, pos |-> pos, reads |-> reads]
    ELSE IF pos < 0
    THEN [ret |-> -1, pos |-> pos, reads |-> reads \cup (pos..(pos + length_size - 1))]
    ELSE
      LET nal_size == ReadNalSize(data, pos, length_size, 0, 0)
          pos2 == pos + length_size
          reads2 == reads \cup (pos..(pos2 - 1))
      IN IF nal_size <= 0 \/ SumExceeds(pos2, nal_size, size, wraps)
         THEN [ret |-> -1, pos |-> pos2, reads |-> reads2]
         ELSE LET nal_unit_type == (data[pos2 + 1] \div 2) % 64
              IN IF nal_unit_type \in OpenGopTypes
                 THEN [ret |-> nal_unit_type, pos |-> pos2, reads |-> reads2 \cup {pos2}]
                 ELSE ScanLoop(data, size, length_size, Add32(pos2, nal_size),
                               wraps, reads2 \cup {pos2})

----------------------------------------------------------------------------
(* Packet payloads as the demuxer delivers them.  A sub-unit is a NAL unit  *)
(* of some type with its two header bytes and len - 2 payload bytes, or an *)
(* empty unit (len = 0).  HVCC framing (MP4, Matroska) puts a big-endian   *)
(* length of length_size bytes before each unit; Annex B framing (MPEG-TS, *)
(* raw .h265) puts the start code 00 00 00 01 before each unit.            *)

NalBytes(u) ==
    IF u.len = 0 THEN <<>>
    ELSE <<u.type * 2, 1>> \o [ i \in 1..(u.len - 2) |-> 128 ]

RECURSIVE BigEndian(_, _)
BigEndian(n, k) == IF k = 0 THEN <<>> ELSE Append(BigEndian(n \div 256, k - 1), n % 256)

RECURSIVE HvccPacket(_, _)
HvccPacket(units, length_size) ==
    IF units = <<>> THEN <<>>
    ELSE BigEndian(Head(units).len, length_size) \o NalBytes(Head(units))
         \o HvccPacket(Tail(units), length_size)

RECURSIVE AnnexBPacket(_)
AnnexBPacket(units) ==
    IF units = <<>> THEN <<>>
    ELSE <<0, 0, 0, 1>> \o NalBytes(Head(units)) \o AnnexBPacket(Tail(units))

PacketData(units, framing, length_size) ==
    IF framing = "hvcc" THEN HvccPacket(units, length_size) ELSE AnnexBPacket(units)

\* the packet holds a NAL unit of an open-GOP type
HasOpenGopUnit(units) ==
    \E i \in 1..Len(units) : units[i].len > 0 /\ units[i].type \in OpenGopTypes

----------------------------------------------------------------------------
(* open_h265_video: timing validation and the frame index *)

VideoPkts(st) == SelectSeq(st.pkts, LAMBDA p : p.vid)

\* nal_length_size: 4 unless the stream is HEVC with an hvcC record
NalLengthSize(st) ==
    IF st.hevc /\ st.hvcc THEN st.lengthSizeMinusOne + 1 ELSE 4

\* First pass: the first open-GOP NAL unit type found in a video packet, or -1
FirstPassStep(st, s, k) ==
    LET pkt == st.pkts[k]
    IN IF ~pkt.vid THEN s
       ELSE LET bad_nal ==
                   IF st.hevc /\ Len(pkt.data) > 0
                   THEN check_hevc_packet_for_open_gop(
                            pkt.data, Len(pkt.data), NalLengthSize(st)).ret
                   ELSE -1
            IN IF bad_nal >= 0
               THEN [s EXCEPT !.bad_nal = bad_nal, !.stop = TRUE]
               ELSE [s EXCEPT !.num_frames = @ + 1]

FirstPass(st) ==
    Loop(LAMBDA s, k : FirstPassStep(st, s, k),
         [bad_nal |-> -1, num_frames |-> 0, stop |-> FALSE], 1, Len(st.pkts))

\* The bounds test of the second pass on the frame number of a packet
InIndex(frame_num, num_frames) == frame_num >= 0 /\ frame_num < num_frames

\* A second pass without the test of pts % pts_increment
SecondPassStep_NoAlignment(st, s, k, pts_increment, num_frames) ==
    LET pkt == st.pkts[k]
    IN IF ~pkt.vid THEN s
       ELSE LET frame_num == FrameIdxOf(pkt.pts, pts_increment)
            IN IF InIndex(frame_num, num_frames)
               THEN [s EXCEPT !.dts_array[frame_num + 1] = pkt.dts,
                              !.frame_count[frame_num + 1] = @ + 1]
               ELSE s

\* Second pass: dts_array and frame_count, both indexed by frame number + 1
SecondPassStep(st, s, k, pts_increment, num_frames) ==
    LET pkt == st.pkts[k]
    IN IF ~pkt.vid THEN s
       ELSE IF PtsRem(pkt.pts, pts_increment) # 0
       THEN [s EXCEPT !.misaligned = TRUE, !.stop = TRUE]
       ELSE LET frame_num == FrameIdxOf(pkt.pts, pts_increment)
            IN IF InIndex(frame_num, num_frames)
               THEN [s EXCEPT !.dts_array[frame_num + 1] = pkt.dts,
                              !.frame_count[frame_num + 1] = @ + 1]
               ELSE s

SecondPass(st, pts_increment, num_frames) ==
    Loop(LAMBDA s, k : SecondPassStep(st, s, k, pts_increment, num_frames),
         [misaligned |-> FALSE, dts_array |-> [ i \in 1..num_frames |-> 0 ],
          frame_count |-> [ i \in 1..num_frames |-> 0 ], stop |-> FALSE],
         1, Len(st.pkts))

\* The error of the verification loop after the second pass, "" if none
IndexVerdict(frame_count) ==
    LET pts_missing_count == Cardinality({ i \in 1..Len(frame_count) : frame_count[i] = 0 })
        pts_duplicate_count == Cardinality({ i \in 1..Len(frame_count) : frame_count[i] > 1 })
    IN IF pts_missing_count > 0 THEN "missingPTS"
       ELSE IF pts_duplicate_count > 0 THEN "duplicatePTS"
       ELSE ""

NoHandle(err) ==
    [status |-> "error", err |-> err, num_frames |-> 0, dts |-> <<>>, pts_increment |-> 0]

PtsIncrementOf_TimeBaseOnly(st) == CDiv(st.tb.den, st.tb.num)

\* pts_increment = numerator / denominator
PtsIncrementOf(st) == CDiv(st.tb.den * st.fr.den, st.tb.num * st.fr.num)

\* mexFunction of open_h265_video: the video_info struct, or the error raised
OpenResult(st) ==
    LET numerator == st.tb.den * st.fr.den
        denominator == st.tb.num * st.fr.num
    IN IF ~st.hasVideo THEN NoHandle("noVideo")
       ELSE IF st.fr.num = 0 \/ st.fr.den = 0 THEN NoHandle("noFrameRate")
       ELSE IF denominator = 0 THEN NoHandle("divideByZero")
       ELSE IF CRem(numerator, denominator) # 0 THEN NoHandle("badFrameRate")
       ELSE
         LET pts_increment == PtsIncrementOf(st)
             first == FirstPass(st)
             num_frames == first.num_frames
         IN IF first.bad_nal >= 0 THEN NoHandle("openGOP")
            ELSE IF num_frames = 0 THEN NoHandle("noFrames")
            ELSE IF pts_increment = 0 THEN NoHandle("divideByZero")
            ELSE
              LET second == SecondPass(st, pts_increment, num_frames)
                  verdict == IndexVerdict(second.frame_count)
              IN IF second.misaligned THEN NoHandle("misalignedPTS")
                 ELSE IF verdict # "" THEN NoHandle(verdict)
                 ELSE [status |-> "ok", err |-> "", num_frames |-> num_frames,
                       dts |-> second.dts_array, pts_increment |-> pts_increment]

----------------------------------------------------------------------------
(* The demuxer and the decoder behind fmt_ctx and codec_ctx.  The decoder  *)
(* holds the pictures of the packets sent to it (dpb, by packet place) and *)
(* gives them out in presentation order, keeping back st.delay of them     *)
(* until it is drained.                                                    *)

NoFault == [kind |-> "none", at |-> 0]

\* avcodec_send_packet rejects the packet at place k
SendFails(fault, k) == fault.kind = "send" /\ fault.at = k

\* avcodec_receive_frame fails right after the packet at place k was sent
ReceiveFails(fault, k) == fault.kind = "recv" /\ fault.at = k

\* A flush that leaves the decoder as it is
avcodec_flush_buffers_Nop(d) == d

\* avcodec_flush_buffers: the decoder drops the pictures it holds and leaves
\* drain mode
avcodec_flush_buffers(d) == [d EXCEPT !.dpb = {}, !.drain = FALSE]

\* avcodec_receive_frame has a picture to give
PictureReady(st, dpb, drain) ==
    dpb # {} /\ (drain \/ Cardinality(dpb) > st.delay)

\* the picture avcodec_receive_frame gives: the earliest in presentation order
NextPicture(st, dpb) ==
    CHOOSE p \in dpb : \A q \in dpb :
        q = p \/ TsLess(st.pkts[p].pts, st.pkts[q].pts)
              \/ (~TsLess(st.pkts[q].pts, st.pkts[p].pts) /\ p < q)

\* av_seek_frame(..., dts, AVSEEK_FLAG_BACKWARD): the place of the last video
\* keyframe packet at or before dts, 0 when there is none (the seek fails)
SeekTarget(st, dts) ==
    LET K == { k \in 1..Len(st.pkts) :
                 st.pkts[k].vid /\ st.pkts[k].key /\ st.pkts[k].dts <= dts }
    IN IF K = {} THEN 0 ELSE CHOOSE k \in K : \A j \in K : j <= k

\* One seek call as the demuxer sees it
SeekCall(fn, ts, flags, ret) == [fn |-> fn, ts |-> ts, flags |-> flags, ret |-> ret]

\* A seek that calls avformat_seek_file whatever av_seek_frame returned
SeekForDecode_AlwaysFallback(st, dts, seek_ok) ==
    [pos |-> 1,
     seeks |-> << SeekCall("av_seek_frame", dts, "AVSEEK_FLAG_BACKWARD",
                           IF seek_ok /\ SeekTarget(st, dts) > 0 THEN 0 ELSE -1),
                  SeekCall("avformat_seek_file", 0, "", 0) >>]

\* The seek at the head of every decode: the place reading resumes at and the
\* seek calls made (the second one is avformat_seek_file to the start, made
\* when av_seek_frame returned an error)
SeekForDecode(st, dts, seek_ok) ==
    LET k == SeekTarget(st, dts)
    IN IF seek_ok /\ k > 0
       THEN [pos |-> k,
             seeks |-> << SeekCall("av_seek_frame", dts, "AVSEEK_FLAG_BACKWARD", 0) >>]
       ELSE [pos |-> 1,
             seeks |-> << SeekCall("av_seek_frame", dts, "AVSEEK_FLAG_BACKWARD", -1),
                          SeekCall("avformat_seek_file", 0, "", 0) >>]

----------------------------------------------------------------------------
(* read_h265_frame: the GOP cache *)

find_in_cache(c, frame_index) ==
    IF c.num_frames = 0 \/ ~c.has_frames THEN -1
    ELSE IF frame_index >= c.start_frame /\ frame_index < c.start_frame + c.num_frames
         THEN frame_index - c.start_frame
         ELSE -1

\* A clear_cache that frees nothing and resets nothing
clear_cache_Keep(c) == c

clear_cache(c) ==
    [c EXCEPT !.frames = <<>>, !.has_frames = FALSE, !.num_frames = 0, !.start_frame = -1]

\* One decoded picture in the inner loop of decode_gop_to_cache
GopTakePicture(st, g, p, pts_increment, target_frame, gray) ==
    LET frame_idx == FrameIdxOf(st.pkts[p].pts, pts_increment)
    IN [g EXCEPT !.dpb = @ \ {p},
                 !.gop_start_frame = IF @ < 0 THEN frame_idx ELSE @,
                 !.temp_buffer = @ \o CopyFrameRowMajor(p, gray),
                 !.temp_count = @ + 1,
                 !.found_target = @ \/ (frame_idx = target_frame)]

\* while (1) { avcodec_receive_frame ... }: fails is whether the next call errs
RECURSIVE GopReceive(_, _, _, _, _, _, _)
GopReceive(st, g, pts_increment, target_frame, gray, drain, fails) ==
    IF fails THEN [g EXCEPT !.ret = -1]
    ELSE IF ~PictureReady(st, g.dpb, drain \/ g.drain) THEN g
    ELSE GopReceive(st,
             GopTakePicture(st, g, NextPicture(st, g.dpb), pts_increment, target_frame, gray),
             pts_increment, target_frame, gray, drain, FALSE)

\* One turn of while (av_read_frame(fmt_ctx, state->pkt) >= 0) { ... }, on
\* the packet at place k
GopReadStep(st, g, k, pts_increment, target_frame, gray, fault) ==
    LET pkt == st.pkts[k]
        g1 == [g EXCEPT !.pos = k + 1]
    IN IF ~pkt.vid THEN g1
       ELSE IF pkt.key /\ g.first_keyframe_seen /\ g.found_target
       THEN [g1 EXCEPT !.stop = TRUE]
       ELSE
         LET g2 == IF pkt.key
                   THEN IF g.first_keyframe_seen
                        THEN [g1 EXCEPT !.temp_count = 0, !.temp_buffer = <<>>,
                                        !.gop_start_frame = -1]
                        ELSE [g1 EXCEPT !.first_keyframe_seen = TRUE]
                   ELSE g1
         IN IF SendFails(fault, k) \/ g.drain
            THEN [g2 EXCEPT !.rejected = TRUE]
            ELSE StopOnError(GopReceive(st, [g2 EXCEPT !.dpb = @ \cup {k}],
                                        pts_increment, target_frame, gray, FALSE,
                                        ReceiveFails(fault, k)))

GopReadLoop(st, g, pts_increment, target_frame, gray, fault) ==
    Loop(LAMBDA s, k : GopReadStep(st, s, k, pts_increment, target_frame, gray, fault),
         g, g.pos, Len(st.pkts))

\* The state of decode_gop_to_cache when it enters the read loop at place pos
GopStart(pos, d) ==
    [pos |-> pos, dpb |-> avcodec_flush_buffers(d).dpb,
     drain |-> avcodec_flush_buffers(d).drain, temp_buffer |-> <<>>, temp_count |-> 0,
     gop_start_frame |-> -1, found_target |-> FALSE,
     first_keyframe_seen |-> FALSE, rejected |-> FALSE, ret |-> 0, stop |-> FALSE]

\* if (!found_target) { avcodec_send_packet(codec_ctx, NULL); ... }
GopDrain(st, g, pts_increment, target_frame, gray) ==
    IF g.ret = 0 /\ ~g.found_target
    THEN GopReceive(st, [g EXCEPT !.drain = TRUE], pts_increment, target_frame, gray,
                    TRUE, FALSE)
    ELSE g

\* The end of decode_gop_to_cache: avcodec_flush_buffers, the failure test,
\* the permute and the store into the cache
GopStore(c, g, seeks) ==
    IF g.ret < 0
    THEN [ret |-> -1, cache |-> c, seeks |-> seeks, rejected |-> g.rejected,
          dec |-> [pos |-> g.pos, dpb |-> g.dpb, drain |-> g.drain]]
    ELSE IF ~g.found_target \/ g.temp_count = 0
    THEN [ret |-> -1, cache |-> c, seeks |-> seeks, rejected |-> g.rejected,
          dec |-> [pos |-> g.pos, dpb |-> {}, drain |-> FALSE]]
    ELSE [ret |-> 0,
          cache |-> [c EXCEPT
              !.frames = PermuteToColumnMajor(g.temp_buffer, c.is_grayscale, g.temp_count),
              !.has_frames = TRUE,
              !.num_frames = g.temp_count,
              !.start_frame = g.gop_start_frame],
          seeks |-> seeks, rejected |-> g.rejected,
          dec |-> [pos |-> g.pos, dpb |-> {}, drain |-> FALSE]]

\* decode_gop_to_cache: ret, the cache, the read position and the seeks made
decode_gop_to_cache(st, h, c, d, target_frame, seek_ok, fault) ==
    LET sk == SeekForDecode(st, h.dts[target_frame + 1], seek_ok)
    IN GopStore(c,
                GopDrain(st,
                         GopReadLoop(st, GopStart(sk.pos, d), h.pts_increment,
                                     target_frame, c.is_grayscale, fault),
                         h.pts_increment, target_frame, c.is_grayscale),
                sk.seeks)

\* What a call leaves in `last`
\* (rejected: avcodec_send_packet refused a packet during the call; captured:
\* what decode_frame_range_rowmajor returned)
Outcome(op, a, b, gray, hit, err, out, seeks, overflow) ==
    [op |-> op, start |-> a, end |-> b, gray |-> gray, hit |-> hit,
     status |-> IF err = "" THEN "ok" ELSE "error", err |-> err,
     out |-> out, seeks |-> seeks, overflow |-> overflow, rejected |-> FALSE,
     captured |-> 0]

\* The frame handed back on a hit and after a fill: an array of the requested
\* layout, filled by memcpy of cache->frame_size bytes
ReturnFromCache(c, cache_idx, is_grayscale) ==
    CopyOut(c.frames, cache_idx, c.frame_size, FrameSize(is_grayscale))

\* mexFunction of read_h265_frame after a miss: r is what decode_gop_to_cache
\* returned
ReadFrameMiss(r, target_frame, is_grayscale) ==
    LET cache_idx == find_in_cache(r.cache, target_frame)
    IN IF r.ret < 0
       THEN [cache |-> r.cache, dec |-> r.dec,
             last |-> [Outcome("readFrame", target_frame, target_frame, is_grayscale,
                          FALSE, "decode", <<>>, r.seeks, FALSE)
                       EXCEPT !.rejected = r.rejected]]
       ELSE IF cache_idx >= 0 /\ r.cache.has_frames
       THEN [cache |-> r.cache, dec |-> r.dec,
             last |-> [Outcome("readFrame", target_frame, target_frame, is_grayscale,
                          FALSE, "",
                          ReturnFromCache(r.cache, cache_idx, is_grayscale),
                          r.seeks, FALSE)
                       EXCEPT !.rejected = r.rejected]]
       ELSE [cache |-> r.cache, dec |-> r.dec,
             last |-> [Outcome("readFrame", target_frame, target_frame, is_grayscale,
                          FALSE, "notFound", <<>>, r.seeks, FALSE)
                       EXCEPT !.rejected = r.rejected]]

\* A read_h265_frame whose hit branch does not return early: it goes on into
\* the decode and hands the frame back from the cache afterwards
ReadFrameResult_DecodeOnHit(st, h, c, d, target_frame, is_grayscale, seek_ok, fault) ==
    IF target_frame < 0 \/ target_frame >= h.num_frames
    THEN [cache |-> c, dec |-> d,
          last |-> Outcome("readFrame", target_frame, target_frame, is_grayscale,
                       FALSE, "invalidIndex", <<>>, <<>>, FALSE)]
    ELSE [ReadFrameMiss(
             decode_gop_to_cache(st, h,
                 [clear_cache(c) EXCEPT !.is_grayscale = is_grayscale,
                                        !.frame_size = FrameSize(is_grayscale)],
                 d, target_frame, seek_ok, fault),
             target_frame, is_grayscale)
          EXCEPT !.last.hit = find_in_cache(c, target_frame) >= 0 /\ c.has_frames]

\* mexFunction of read_h265_frame for the 0-based target_frame
ReadFrameResult(st, h, c, d, target_frame, is_grayscale, seek_ok, fault) ==
    IF target_frame < 0 \/ target_frame >= h.num_frames
    THEN [cache |-> c, dec |-> d,
          last |-> Outcome("readFrame", target_frame, target_frame, is_grayscale,
                       FALSE, "invalidIndex", <<>>, <<>>, FALSE)]
    ELSE IF find_in_cache(c, target_frame) >= 0 /\ c.has_frames
    THEN [cache |-> c, dec |-> d,
          last |-> Outcome("readFrame", target_frame, target_frame, is_grayscale,
                       TRUE, "",
                       ReturnFromCache(c, find_in_cache(c, target_frame), is_grayscale),
                       <<>>, c.frame_size > FrameSize(is_grayscale))]
    ELSE ReadFrameMiss(
             decode_gop_to_cache(st, h,
                 [clear_cache(c) EXCEPT !.is_grayscale = is_grayscale,
                                        !.frame_size = FrameSize(is_grayscale)],
                 d, target_frame, seek_ok, fault),
             target_frame, is_grayscale)

----------------------------------------------------------------------------
(* read_h265_frames: the range decoder *)

\* One decoded picture in the inner loops of decode_frame_range_rowmajor
RangeTakePicture(st, r, p, pts_increment, target_start, target_end, gray, frame_size) ==
    LET frame_idx == FrameIdxOf(st.pkts[p].pts, pts_increment)
        local_idx == frame_idx - target_start
        r1 == [r EXCEPT !.dpb = @ \ {p}]
    IN IF frame_idx >= target_start /\ frame_idx <= target_end /\ ~r.captured[local_idx + 1]
       THEN [r1 EXCEPT
               !.frame_buffer = [ i \in 1..Len(@) |->
                   IF i > local_idx * frame_size /\ i <= (local_idx + 1) * frame_size
                   THEN CopyFrameRowMajor(p, gray)[i - local_idx * frame_size]
                   ELSE @[i] ],
               !.captured[local_idx + 1] = TRUE,
               !.frames_captured = @ + 1]
       ELSE r1

\* while (frames_captured < num_frames) { avcodec_receive_frame ... }
RECURSIVE RangeReceive(_, _, _, _, _, _, _, _, _)
RangeReceive(st, r, pts_increment, target_start, target_end, gray, frame_size, drain, fails) ==
    IF ~(r.frames_captured < target_end - target_start + 1) THEN r
    ELSE IF fails THEN [r EXCEPT !.ret = -1]
    ELSE IF ~PictureReady(st, r.dpb, drain \/ r.drain) THEN r
    ELSE RangeReceive(st,
             RangeTakePicture(st, r, NextPicture(st, r.dpb), pts_increment,
                              target_start, target_end, gray, frame_size),
             pts_increment, target_start, target_end, gray, frame_size, drain, FALSE)

\* A read loop that tests only av_read_frame: while (av_read_frame(...) >= 0)
RangeReadStep_ToTheEnd(st, r, k, pts_increment, target_start, target_end, gray, frame_size, fault) ==
    LET pkt == st.pkts[k]
        r1 == [r EXCEPT !.pos = k + 1]
    IN IF ~pkt.vid THEN r1
       ELSE IF SendFails(fault, k) \/ r.drain THEN [r1 EXCEPT !.rejected = TRUE]
       ELSE StopOnError(RangeReceive(st, [r1 EXCEPT !.dpb = @ \cup {k}],
                                     pts_increment, target_start, target_end, gray,
                                     frame_size, FALSE, ReceiveFails(fault, k)))

\* One turn of while (frames_captured < num_frames && av_read_frame(...) >= 0)
\* { ... }, on the packet at place k
RangeReadStep(st, r, k, pts_increment, target_start, target_end, gray, frame_size, fault) ==
    IF ~(r.frames_captured < target_end - target_start + 1) THEN [r EXCEPT !.stop = TRUE]
    ELSE
      LET pkt == st.pkts[k]
          r1 == [r EXCEPT !.pos = k + 1]
      IN IF ~pkt.vid THEN r1
         ELSE IF SendFails(fault, k) \/ r.drain THEN [r1 EXCEPT !.rejected = TRUE]
         ELSE StopOnError(RangeReceive(st, [r1 EXCEPT !.dpb = @ \cup {k}],
                                       pts_increment, target_start, target_end, gray,
                                       frame_size, FALSE, ReceiveFails(fault, k)))

RangeReadLoop(st, r, pts_increment, target_start, target_end, gray, frame_size, fault) ==
    Loop(LAMBDA s, k : RangeReadStep(st, s, k, pts_increment, target_start, target_end,
                                     gray, frame_size, fault),
         r, r.pos, Len(st.pkts))

\* The state of decode_frame_range_rowmajor when it enters the read loop
RangeStart(pos, d, num_frames, frame_size) ==
    [pos |-> pos, dpb |-> avcodec_flush_buffers(d).dpb,
     drain |-> avcodec_flush_buffers(d).drain, captured |-> [ i \in 1..num_frames |-> FALSE ],
     frames_captured |-> 0,
     frame_buffer |-> [ i \in 1..(num_frames * frame_size) |-> ZeroByte ],
     rejected |-> FALSE, ret |-> 0, stop |-> FALSE]

\* if (frames_captured < num_frames) { avcodec_send_packet(codec_ctx, NULL); ... }
RangeDrain(st, r, pts_increment, target_start, target_end, gray, frame_size) ==
    IF r.ret = 0 /\ r.frames_captured < target_end - target_start + 1
    THEN RangeReceive(st, [r EXCEPT !.drain = TRUE], pts_increment, target_start,
                      target_end, gray, frame_size, TRUE, FALSE)
    ELSE r

\* return frames_captured, or -1 after a decoder error
RangeReturn(r, seeks) ==
    [ret |-> IF r.ret < 0 THEN -1 ELSE r.frames_captured,
     frame_buffer |-> r.frame_buffer,
     captured |-> r.captured,
     seeks |-> seeks, rejected |-> r.rejected,
     dec |-> [pos |-> r.pos, dpb |-> r.dpb, drain |-> r.drain]]

\* decode_frame_range_rowmajor: frames captured or -1, the output buffer, the
\* state the demuxer and the decoder are left in, the seeks made
decode_frame_range_rowmajor(st, h, d, target_start, target_end, gray, frame_size, seek_ok, fault) ==
    LET sk == SeekForDecode(st, h.dts[target_start + 1], seek_ok)
    IN RangeReturn(
           RangeDrain(st,
               RangeReadLoop(st,
                   RangeStart(sk.pos, d, target_end - target_start + 1, frame_size),
                   h.pts_increment, target_start, target_end, gray, frame_size, fault),
               h.pts_increment, target_start, target_end, gray, frame_size),
           sk.seeks)

\* A read_h265_frames that hands the buffer back whenever the decode did not
\* fail, without comparing frames_captured with the number asked for
ReadFramesReturn_Unchecked(r, start_frame, end_frame, is_grayscale) ==
    [dec |-> r.dec,
     last |-> [Outcome("readFrames", start_frame, end_frame, is_grayscale, FALSE,
                  IF r.ret < 0 THEN "decode" ELSE "",
                  IF r.ret >= 0 THEN r.frame_buffer ELSE <<>>,
                  r.seeks, FALSE)
               EXCEPT !.rejected = r.rejected, !.captured = r.ret]]

\* mexFunction of read_h265_frames once decode_frame_range_rowmajor returned r
ReadFramesReturn(r, start_frame, end_frame, is_grayscale) ==
    [dec |-> r.dec,
     last |-> [Outcome("readFrames", start_frame, end_frame, is_grayscale, FALSE,
                  IF r.ret < 0 THEN "decode"
                  ELSE IF r.ret < end_frame - start_frame + 1 THEN "notFound" ELSE "",
                  IF r.ret = end_frame - start_frame + 1 THEN r.frame_buffer ELSE <<>>,
                  r.seeks, FALSE)
               EXCEPT !.rejected = r.rejected, !.captured = r.ret]]

\* A read_h265_frames that does not compare end_frame with start_frame
ReadFramesResult_NoRangeCheck(st, h, d, start_frame, end_frame, is_grayscale, seek_ok, fault) ==
    IF start_frame < 0 \/ start_frame >= h.num_frames
       \/ end_frame < 0 \/ end_frame >= h.num_frames
    THEN [dec |-> d,
          last |-> Outcome("readFrames", start_frame, end_frame, is_grayscale, FALSE,
                       "invalidIndex", <<>>, <<>>, FALSE)]
    ELSE ReadFramesReturn(
             decode_frame_range_rowmajor(st, h, d, start_frame, end_frame, is_grayscale,
                 FrameSize(is_grayscale), seek_ok, fault),
             start_frame, end_frame, is_grayscale)

\* mexFunction of read_h265_frames for the 0-based start_frame and end_frame
ReadFramesResult(st, h, d, start_frame, end_frame, is_grayscale, seek_ok, fault) ==
    IF start_frame < 0 \/ start_frame >= h.num_frames
       \/ end_frame < 0 \/ end_frame >= h.num_frames
    THEN [dec |-> d,
          last |-> Outcome("readFrames", start_frame, end_frame, is_grayscale, FALSE,
                       "invalidIndex", <<>>, <<>>, FALSE)]
    ELSE IF end_frame < start_frame
    THEN [dec |-> d,
          last |-> Outcome("readFrames", start_frame, end_frame, is_grayscale, FALSE,
                       "invalidRange", <<>>, <<>>, FALSE)]
    ELSE ReadFramesReturn(
             decode_frame_range_rowmajor(st, h, d, start_frame, end_frame, is_grayscale,
                 FrameSize(is_grayscale), seek_ok, fault),
             start_frame, end_frame, is_grayscale)

----------------------------------------------------------------------------
(* src/read_h265_frames.c: the range reader that finds the slot of a        *)
(* picture by comparing frame->pts with (start_frame + i) * pts_increment   *)

\* for (i = 0; i < num_frames_to_read; i++)
\*     if (!frame_captured[i] && frame_pts == target_pts) { ...; break; }
ExactTakePicture(st, r, p, pts_increment, start_frame, end_frame, gray, frame_size) ==
    LET hits == { i \in 0..(end_frame - start_frame) :
                    /\ ~r.captured[i + 1]
                    /\ ~st.pkts[p].pts.nopts
                    /\ st.pkts[p].pts.v = (start_frame + i) * pts_increment }
        r1 == [r EXCEPT !.dpb = @ \ {p}]
    IN IF hits = {} THEN r1
       ELSE LET i == CHOOSE j \in hits : \A q \in hits : j <= q
            IN [r1 EXCEPT
                  !.frame_buffer = [ b \in 1..Len(@) |->
                      IF b > i * frame_size /\ b <= (i + 1) * frame_size
                      THEN ConvertFrameToMatlab(p, gray)[b - i * frame_size]
                      ELSE @[b] ],
                  !.captured[i + 1] = TRUE,
                  !.frames_captured = @ + 1]

\* while (ret >= 0) { avcodec_receive_frame ...; if (frames_captured ==
\* num_frames_to_read) break; } of the read loop, and the
\* while (frames_captured < num_frames_to_read) { ... } after the flush packet
RECURSIVE ExactReceive(_, _, _, _, _, _, _, _, _)
ExactReceive(st, r, pts_increment, start_frame, end_frame, gray, frame_size, drain, fails) ==
    IF drain /\ ~(r.frames_captured < end_frame - start_frame + 1) THEN r
    ELSE IF fails THEN [r EXCEPT !.ret = -1]
    ELSE IF ~PictureReady(st, r.dpb, drain \/ r.drain) THEN r
    ELSE \* the picture is looked up in the range, then the loop goes on
         LET r2 == ExactTakePicture(st, r, NextPicture(st, r.dpb), pts_increment,
                                    start_frame, end_frame, gray, frame_size)
         IN IF ~drain /\ r2.frames_captured = end_frame - start_frame + 1 THEN r2
            ELSE ExactReceive(st, r2, pts_increment, start_frame, end_frame, gray,
                              frame_size, drain, FALSE)

\* One turn of while (frames_captured < num_frames_to_read &&
\* av_read_frame(fmt_ctx, pkt) >= 0) { ... }, on the packet at place k
ExactReadStep(st, r, k, pts_increment, start_frame, end_frame, gray, frame_size, fault) ==
    IF ~(r.frames_captured < end_frame - start_frame + 1) THEN [r EXCEPT !.stop = TRUE]
    ELSE
      LET pkt == st.pkts[k]
          r1 == [r EXCEPT !.pos = k + 1]
      IN IF ~pkt.vid THEN r1
         ELSE IF SendFails(fault, k) \/ r.drain THEN [r1 EXCEPT !.rejected = TRUE]
         ELSE StopOnError(ExactReceive(st, [r1 EXCEPT !.dpb = @ \cup {k}],
                                       pts_increment, start_frame, end_frame, gray,
                                       frame_size, FALSE, ReceiveFails(fault, k)))

\* The seek, the read loop and the flush of src/read_h265_frames.c: frames
\* captured or -1, the output array, the capture flags
read_h265_frames_loops(st, h, d, start_frame, end_frame, gray, frame_size, seek_ok, fault) ==
    LET sk == SeekForDecode(st, h.dts[start_frame + 1], seek_ok)
        rd == Loop(LAMBDA s, k : ExactReadStep(st, s, k, h.pts_increment, start_frame,
                                               end_frame, gray, frame_size, fault),
                   RangeStart(sk.pos, d, end_frame - start_frame + 1, frame_size),
                   sk.pos, Len(st.pkts))
    IN RangeReturn(
           IF rd.ret = 0 /\ rd.frames_captured < end_frame - start_frame + 1
           THEN ExactReceive(st, [rd EXCEPT !.drain = TRUE], h.pts_increment,
                             start_frame, end_frame, gray, frame_size, TRUE, FALSE)
           ELSE rd,
           sk.seeks)

\* mexFunction of src/read_h265_frames.c for the 0-based range
read_h265_frames(st, h, d, start_frame, end_frame, is_grayscale, seek_ok, fault) ==
    IF start_frame < 0 \/ start_frame >= h.num_frames
       \/ end_frame < 0 \/ end_frame >= h.num_frames
    THEN [dec |-> d,
          last |-> Outcome("readH265Frames", start_frame, end_frame, is_grayscale, FALSE,
                       "invalidIndex", <<>>, <<>>, FALSE)]
    ELSE IF end_frame < start_frame
    THEN [dec |-> d,
          last |-> Outcome("readH265Frames", start_frame, end_frame, is_grayscale, FALSE,
                       "invalidRange", <<>>, <<>>, FALSE)]
    ELSE \* the error or the array: if (frames_captured < num_frames_to_read)
         \* mexErrMsgIdAndTxt("read_h265_frames:notFound", ...), as the cached
         \* reader's mexFunction does after its decode
         [ReadFramesReturn(
              read_h265_frames_loops(st, h, d, start_frame, end_frame, is_grayscale,
                  FrameSize(is_grayscale), seek_ok, fault),
              start_frame, end_frame, is_grayscale)
          EXCEPT !.last.op = "readH265Frames"]

----------------------------------------------------------------------------
(* read_ffmpeg_frame and the read_h265_frame without a cache: one frame per *)
(* call, found by comparing frame->pts with target_frame * pts_increment    *)

\* frame->pts == target_pts
IsTargetPts(ts, target_frame, pts_increment) ==
    ~ts.nopts /\ ts.v = target_frame * pts_increment

\* while (ret >= 0) { avcodec_receive_frame ... }: the target's picture ends
\* the request (ret = 1), any other picture is dropped
RECURSIVE SingleReceive(_, _, _, _, _, _, _)
SingleReceive(st, f, pts_increment, target_frame, gray, drain, fails) ==
    IF fails THEN [f EXCEPT !.ret = -1]
    ELSE IF ~PictureReady(st, f.dpb, drain \/ f.drain) THEN f
    ELSE IF IsTargetPts(st.pkts[NextPicture(st, f.dpb)].pts, target_frame, pts_increment)
    THEN [f EXCEPT !.dpb = @ \ {NextPicture(st, f.dpb)},
                   !.out = ConvertFrameToMatlab(NextPicture(st, f.dpb), gray),
                   !.ret = 1]
    ELSE SingleReceive(st, [f EXCEPT !.dpb = @ \ {NextPicture(st, f.dpb)}],
                       pts_increment, target_frame, gray, drain, FALSE)

\* return (found) and mexErrMsgIdAndTxt (decode) both leave the read loop
StopOnReturn(f) == IF f.ret # 0 THEN [f EXCEPT !.stop = TRUE] ELSE f

\* One turn of while (av_read_frame(fmt_ctx, pkt) >= 0) { ... }
SingleReadStep(st, f, k, pts_increment, target_frame, gray, fault) ==
    IF ~st.pkts[k].vid THEN [f EXCEPT !.pos = k + 1]
    ELSE IF SendFails(fault, k) \/ f.drain
    THEN [f EXCEPT !.pos = k + 1, !.rejected = TRUE]
    ELSE StopOnReturn(SingleReceive(st, [f EXCEPT !.pos = k + 1, !.dpb = @ \cup {k}],
                                    pts_increment, target_frame, gray, FALSE,
                                    ReceiveFails(fault, k)))

SingleReadLoop(st, f, pts_increment, target_frame, gray, fault) ==
    Loop(LAMBDA s, k : SingleReadStep(st, s, k, pts_increment, target_frame, gray, fault),
         f, f.pos, Len(st.pkts))

SingleStart(pos, d) ==
    [pos |-> pos, dpb |-> avcodec_flush_buffers(d).dpb,
     drain |-> avcodec_flush_buffers(d).drain, out |-> <<>>,
     rejected |-> FALSE, ret |-> 0, stop |-> FALSE]

\* avcodec_send_packet(codec_ctx, NULL); while (1) { ... } of read_h265_frame
SingleDrain(st, f, pts_increment, target_frame, gray) ==
    IF f.ret = 0
    THEN SingleReceive(st, [f EXCEPT !.drain = TRUE], pts_increment, target_frame,
                       gray, TRUE, FALSE)
    ELSE f

\* The end of either function: the frame, the decode error or notFound
SingleReturn(op, f, target_frame, gray, seeks) ==
    [dec |-> [pos |-> f.pos, dpb |-> f.dpb, drain |-> f.drain],
     last |-> [Outcome(op, target_frame, target_frame, gray, FALSE,
                  IF f.ret < 0 THEN "decode" ELSE IF f.ret = 1 THEN "" ELSE "notFound",
                  f.out, seeks, FALSE)
               EXCEPT !.rejected = f.rejected]]

\* mexFunction of src/read_ffmpeg_frame.c: grayscale only, and no drain
\* after the read loop
read_ffmpeg_frame(st, h, d, target_frame, seek_ok, fault) ==
    IF target_frame < 0 \/ target_frame >= h.num_frames
    THEN [dec |-> d,
          last |-> Outcome("readFfmpegFrame", target_frame, target_frame, TRUE, FALSE,
                       "invalidIndex", <<>>, <<>>, FALSE)]
    ELSE LET sk == SeekForDecode(st, h.dts[target_frame + 1], seek_ok)
         IN SingleReturn("readFfmpegFrame",
                SingleReadLoop(st, SingleStart(sk.pos, d), h.pts_increment,
                               target_frame, TRUE, fault),
                target_frame, TRUE, sk.seeks)

\* mexFunction of src/read_h265_frame.c: either layout, and a drain after the
\* read loop
read_h265_frame(st, h, d, target_frame, is_grayscale, seek_ok, fault) ==
    IF target_frame < 0 \/ target_frame >= h.num_frames
    THEN [dec |-> d,
          last |-> Outcome("readH265Frame", target_frame, target_frame, is_grayscale,
                       FALSE, "invalidIndex", <<>>, <<>>, FALSE)]
    ELSE LET sk == SeekForDecode(st, h.dts[target_frame + 1], seek_ok)
         IN SingleReturn("readH265Frame",
                SingleDrain(st,
                    SingleReadLoop(st, SingleStart(sk.pos, d), h.pts_increment,
                                   target_frame, is_grayscale, fault),
                    h.pts_increment, target_frame, is_grayscale),
                target_frame, is_grayscale, sk.seeks)

----------------------------------------------------------------------------
(* Streams *)

Timing(tb_den) == [tb |-> [num |-> 1, den |-> tb_den], fr |-> [num |-> 30, den |-> 1]]

CleanUnits == << [type |-> HEVC_NAL_TRAIL_R, len |-> 3] >>

\* The place of the keyframe that opens the GOP of the packet at place k
GopHead(K, k) == CHOOSE g \in K : g <= k /\ \A j \in K : j <= k => j <= g

\* The place after the GOP of the packet at place k
GopEnd(N, K, k) ==
    LET later == { j \in K : j > k } IN IF later = {} THEN N + 1 ELSE Min(later)

\* The presentation frame number of the packet at place k of a closed-GOP
\* stream: decode order, or I P B P B ... with each B sent after the P it
\* precedes on screen
Presents(N, K, reorder, k) ==
    LET g == GopHead(K, k)
        o == k - g
    IN IF ~reorder \/ o = 0 THEN k - 1
       ELSE IF o % 2 = 1 THEN (IF k + 1 < GopEnd(N, K, k) THEN k ELSE k - 1)
       ELSE k - 2

ClosedGopStream(N, K, reorder, tb_den, delay) ==
    LET inc == tb_den \div 30
    IN [pkts |-> [ k \in 1..N |->
                     [vid |-> TRUE, key |-> k \in K,
                      pts |-> Ts(Presents(N, K, reorder, k) * inc),
                      dts |-> (k - 1) * inc - (IF reorder THEN inc ELSE 0),
                      units |-> CleanUnits,
                      data |-> PacketData(CleanUnits, "hvcc", 4)] ],
        tb |-> Timing(tb_den).tb, fr |-> Timing(tb_den).fr,
        hasVideo |-> TRUE, hevc |-> TRUE, hvcc |-> TRUE, lengthSizeMinusOne |-> 3,
        delay |-> delay]

\* Streams without B-frames tick once per frame, streams with B-frames twice
ReadStreams ==
    UNION { { ClosedGopStream(N, K, reorder, IF reorder THEN 60 ELSE 30, delay) :
                K \in { S \in SUBSET (1..N) : 1 \in S },
                reorder \in BOOLEAN, delay \in 0..MaxDelay } :
            N \in {MaxFrames} }

WellFormed(st) ==
    /\ st.pkts[1].key
    /\ \A p \in 1..Len(st.pkts), q \in 1..Len(st.pkts) :
          \* the decoder gives pictures out in presentation order only if it
          \* holds back at least as many as the stream reorders
          (p < q /\ TsLess(st.pkts[q].pts, st.pkts[p].pts)) => st.delay >= 1

\* What the collaborators do during one request: all goes well, the seek
\* fails, or the decoder rejects one packet or fails on one picture
Environments(st) ==
    { [seek_ok |-> TRUE, fault |-> NoFault], [seek_ok |-> FALSE, fault |-> NoFault] }
    \cup { [seek_ok |-> TRUE, fault |-> [kind |-> knd, at |-> k]] :
             knd \in {"send", "recv"}, k \in 1..Len(st.pkts) }

----------------------------------------------------------------------------
(* What the calls allocate and free.  A call is a list of steps in the      *)
(* order of its code.  A step that succeeds acquires what it allocates and  *)
(* then frees what the code frees on the way to the next step; the step at  *)
(* which the call leaves frees what that exit frees.  Freeing a pointer     *)
(* that is NULL changes nothing (av_frame_free, av_packet_free,             *)
(* avcodec_free_context on a NULL pointer; the code tests the others).      *)

Step(exit, acquire, free, release) ==
    [exit |-> exit, acquire |-> acquire, free |-> free, release |-> release]

\* the exit of a step that cannot fail
NoExit == "-"

ExitIndex(steps, exit) == CHOOSE k \in 1..Len(steps) : steps[k].exit = exit

\* what is held on arrival at step k of a call that started with held
HeldAt(steps, k, held) ==
    { r \in held : \A i \in 1..(k - 1) : r \notin steps[i].free }
    \cup { r \in UNION { steps[j].acquire : j \in 1..(k - 1) } :
             \E j \in 1..(k - 1) : /\ r \in steps[j].acquire
                                   /\ \A i \in j..(k - 1) : r \notin steps[i].free }

\* exits that free nothing
Release_Nothing(held, names) == held

\* the frees written before a mexErrMsgIdAndTxt or a return
Release(held, names) == held \ names

\* what is held after the call left at the named exit; got is what the step
\* that failed had obtained before it failed
LeaveAt(steps, exit, got, held) ==
    Release(HeldAt(steps, ExitIndex(steps, exit), held) \cup got,
            steps[ExitIndex(steps, exit)].release)

\* mexFunction of open_h265_video
OpenSteps ==
    << Step(NoExit, {"filename"}, {}, {}),
       Step("openFailed", {"fmt_ctx"}, {}, {"filename"}),
       Step("streamInfo", {}, {}, {"fmt_ctx", "filename"}),
       Step("noVideo", {}, {}, {"fmt_ctx", "filename"}),
       Step("noFrameRate", {}, {}, {"fmt_ctx", "filename"}),
       Step("divideByZero", {}, {}, {}),
       Step("badFrameRate", {}, {}, {"codec_ctx", "fmt_ctx", "filename"}),
       Step("noCodec", {}, {}, {"fmt_ctx", "filename"}),
       Step("hwDecoder", {}, {}, {"fmt_ctx", "filename"}),
       Step("allocCodec", {"codec_ctx"}, {}, {"fmt_ctx", "filename"}),
       Step("codecParams", {}, {}, {"codec_ctx", "fmt_ctx", "filename"}),
       Step("openCodec", {}, {}, {"codec_ctx", "fmt_ctx", "filename"}),
       Step("allocPkt", {"pkt"}, {}, {"codec_ctx", "fmt_ctx", "filename"}),
       Step("openGOP", {}, {}, {"pkt", "codec_ctx", "fmt_ctx", "filename"}),
       Step("noFrames", {}, {}, {"pkt", "codec_ctx", "fmt_ctx", "filename"}),
       Step("allocArrays", {"dts_array", "frame_count"}, {},
            {"dts_array", "frame_count", "pkt", "codec_ctx", "fmt_ctx", "filename"}),
       Step("misalignedPTS", {}, {"pkt", "frame_count"},
            {"pkt", "frame_count", "dts_array", "codec_ctx", "fmt_ctx", "filename"}),
       Step("missingPTS", {}, {}, {"dts_array", "codec_ctx", "fmt_ctx", "filename"}),
       Step("duplicatePTS", {}, {}, {"dts_array", "codec_ctx", "fmt_ctx", "filename"}),
       Step("allocCache", {"cache", "cache.frame_data", "cache.frame_indices"}, {},
            {"dts_array", "codec_ctx", "fmt_ctx", "filename"}),
       Step("", {}, {}, {"dts_array", "filename"}) >>

Fault(exit, err, got) == [exit |-> exit, err |-> err, got |-> got]

\* the library calls of open that can fail whatever the stream holds, with
\* what a failed pair of allocations had obtained
OpenFaults ==
    { Fault(e, e, {}) : e \in {"openFailed", "streamInfo", "noCodec", "hwDecoder",
                               "allocCodec", "codecParams", "openCodec", "allocPkt",
                               "allocCache"} }
    \cup { Fault("allocArrays", "allocArrays", got) :
             got \in {{}, {"dts_array"}, {"frame_count"}} }

\* a free_decode_state that leaves the pixel converter allocated
Workspace_WithoutScaler == {"state.frame", "state.out_frame", "state.pkt"}

\* what init_decode_state allocates and free_decode_state frees
Workspace == {"state.frame", "state.out_frame", "state.pkt", "state.sws_ctx"}

InitDecodeSteps ==
    << Step("allocDecode", {"state.frame", "state.out_frame", "state.pkt"}, {},
            {"state.frame", "state.out_frame", "state.pkt"}),
       Step("allocDecode.buffer", {}, {},
            {"state.frame", "state.out_frame", "state.pkt"}),
       Step("allocDecode.sws", {"state.sws_ctx"}, {},
            {"state.frame", "state.out_frame", "state.pkt"}) >>

InitDecodeFaults ==
    { Fault("allocDecode", "allocDecode", got) :
        got \in (SUBSET {"state.frame", "state.out_frame", "state.pkt"})
                \ {{"state.frame", "state.out_frame", "state.pkt"}} }
    \cup { Fault("allocDecode.buffer", "allocDecode", {}),
           Fault("allocDecode.sws", "allocDecode", {}) }

\* mexFunction of read_h265_frame with decode_gop_to_cache
ReadFrameSteps ==
    << Step("invalidIndex", {}, {}, {}),
       Step("hit", {}, {}, {}),
       Step(NoExit, {}, {"cache.frames"}, {}) >>
    \o InitDecodeSteps
    \o << Step("decode.alloc", {"temp_buffer"}, {}, Workspace),
          Step("decode", {}, {}, {"temp_buffer"} \cup Workspace),
          Step(NoExit, {"rowmajor"}, {"temp_buffer"}, {}),
          Step(NoExit, {"perm_args[1]"}, {}, {}),
          Step(NoExit, {"cache.frames"}, {"rowmajor", "perm_args[1]"}, {}),
          Step(NoExit, {}, Workspace, {}),
          Step("notFound", {}, {}, {}),
          Step("", {}, {}, {}) >>

\* mexFunction of read_h265_frames with decode_frame_range_rowmajor
ReadFramesSteps ==
    << Step("invalidIndex", {}, {}, {}),
       Step("invalidRange", {}, {}, {}) >>
    \o InitDecodeSteps
    \o << Step("decode.alloc", {"captured"}, {}, Workspace),
          Step("decode", {}, {}, {"captured"} \cup Workspace),
          Step(NoExit, {}, {"captured"}, {}),
          Step(NoExit, {}, Workspace, {}),
          Step("notFound", {}, {}, {}),
          Step("", {}, {}, {}) >>

\* the allocations of the two readers that can fail
DecodeFaults == InitDecodeFaults \cup { Fault("decode.alloc", "decode", {}) }

\* mexFunction of the read_h265_frame without a cache
ReadH265FrameSteps ==
    << Step("invalidIndex", {}, {}, {}),
       Step("allocFrame", {"frame", "out_frame", "pkt"}, {}, {"frame", "out_frame", "pkt"}),
       Step("decode", {}, {}, {"pkt", "frame", "out_frame"}),
       Step("notFound", {}, {}, {"pkt", "frame", "out_frame"}),
       Step("sws", {"sws_ctx"}, {}, {"pkt", "frame", "out_frame"}),
       Step("", {}, {}, {"sws_ctx", "pkt", "frame", "out_frame"}) >>

\* mexFunction of read_ffmpeg_frame
ReadFfmpegFrameSteps ==
    << Step("invalidIndex", {}, {}, {}),
       Step("allocFrame", {"frame", "gray_frame", "pkt"}, {}, {"frame", "gray_frame", "pkt"}),
       Step("decode", {}, {}, {"pkt", "frame", "gray_frame"}),
       Step("notFound", {}, {}, {"pkt", "frame", "gray_frame"}),
       Step("sws", {"sws_ctx"}, {}, {"pkt", "frame", "gray_frame"}),
       Step("", {}, {}, {"sws_ctx", "pkt", "frame", "gray_frame"}) >>

\* av_frame_alloc, av_frame_alloc, av_packet_alloc with one of them failing
FrameFaults(second) ==
    { Fault("allocFrame", "allocFrame", got) :
        got \in (SUBSET {"frame", second, "pkt"}) \ {{"frame", second, "pkt"}} }

\* mexFunction of close_h265_video with free_frame_cache
CloseSteps ==
    << Step(NoExit, {},
            {"cache.frame_data[0]", "cache.frame_data", "cache.frame_indices[0]",
             "cache.frame_indices", "cache"}, {}),
       Step(NoExit, {}, {"codec_ctx"}, {}),
       Step(NoExit, {}, {"fmt_ctx"}, {}),
       Step("", {}, {}, {}) >>

\* the exit a read left by, from what it reported
ExitOf(l) == IF l.hit THEN "hit" ELSE l.err

----------------------------------------------------------------------------
(* The handle's life: open, then reads *)

NoCall == Outcome("none", 0, 0, FALSE, FALSE, "", <<>>, <<>>, FALSE)

NoHandleYet ==
    [status |-> "none", err |-> "", num_frames |-> 0, dts |-> <<>>, pts_increment |-> 0]

\* A cache that comes out of open holding one grey frame as frame 0
EmptyCache_Prefilled ==
    [frames |-> [ i \in 1..FrameSize(TRUE) |-> ZeroByte ], has_frames |-> TRUE,
     num_frames |-> 1, start_frame |-> 0, is_grayscale |-> TRUE,
     frame_size |-> FrameSize(TRUE)]

\* alloc_frame_cache
EmptyCache ==
    [frames |-> <<>>, has_frames |-> FALSE, num_frames |-> 0, start_frame |-> -1,
     is_grayscale |-> FALSE, frame_size |-> 0]

\* before open_h265_write
NoWriter ==
    [status |-> "none", next_pts |-> 0, pts_increment |-> 0, accepted |-> <<>>,
     err |-> "", writes |-> 0]

\* no call is being followed
IdleRun ==
    [op |-> "none", phase |-> "idle", a |-> 0, b |-> 0, gray |-> FALSE, seek_ok |-> TRUE,
     fault |-> NoFault, pos |-> 1, dpb |-> {}, drain |-> FALSE, found |-> FALSE,
     first_key |-> FALSE, got |-> {}, fails |-> FALSE, pass |-> <<>>,
     captured |-> <<>>, frames_captured |-> 0, written |-> <<>>]

IdleScan == [data |-> <<>>, length_size |-> 4, units |-> <<>>, framing |-> "hvcc",
             done |-> FALSE, ret |-> -1, pos |-> 0, reads |-> {}]

Init ==
    /\ stream \in { st \in ReadStreams : WellFormed(st) }
    /\ handle = NoHandleYet
    /\ cache = EmptyCache
    /\ dec = [pos |-> 1, dpb |-> {}, drain |-> FALSE]
    /\ last = NoCall
    /\ scan = IdleScan
    /\ calls = 0
    /\ res = {}
    /\ run = IdleRun
    /\ writer = NoWriter

OpenVideo ==
    /\ handle.status = "none"
    /\ \E h \in { OpenResult(stream) } :
         /\ handle' = h
         /\ last' = Outcome("open", 0, 0, FALSE, FALSE, h.err, <<>>, <<>>, FALSE)
         /\ res' = LeaveAt(OpenSteps, h.err, {}, res)
    /\ cache' = EmptyCache
    /\ dec' = [pos |-> 1, dpb |-> {}, drain |-> FALSE]
    /\ UNCHANGED <<writer, run, stream, scan, calls>>

\* One call of read_h265_frame with a frame number and an environment drawn
\* from the given sets
ReadFrameWith(targets, envs) ==
    /\ handle.status = "ok"
    /\ calls < MaxCalls
    /\ calls' = calls + 1
    /\ \E target_frame \in targets, is_grayscale \in BOOLEAN, env \in envs :
         \E r \in { ReadFrameResult(stream, handle, cache, dec, target_frame,
                                    is_grayscale, env.seek_ok, env.fault) } :
            /\ cache' = r.cache
            /\ dec' = r.dec
            /\ last' = r.last
            /\ res' = LeaveAt(ReadFrameSteps, ExitOf(r.last), {}, res)
    /\ UNCHANGED <<writer, run, stream, handle, scan>>

ReadFrame == ReadFrameWith(-1..handle.num_frames, Environments(stream))

\* The ranges asked for: every start with every end from start - 1 on, and
\* the two starts outside the index
Ranges(n) ==
    { <<a, b>> \in (0..(n - 1)) \X (-1..n) : b >= a - 1 } \cup { <<-1, 0>>, <<n, n>> }

\* A read_h265_frames that empties the cache of the handle on its way
ReadFrames_ThroughCache ==
    /\ handle.status = "ok"
    /\ calls < MaxCalls
    /\ calls' = calls + 1
    /\ \E rg \in Ranges(handle.num_frames), is_grayscale \in BOOLEAN,
          env \in Environments(stream) :
         \E r \in { ReadFramesResult(stream, handle, dec, rg[1], rg[2], is_grayscale,
                                     env.seek_ok, env.fault) } :
            /\ dec' = r.dec
            /\ last' = r.last
            /\ res' = LeaveAt(ReadFramesSteps, ExitOf(r.last), {}, res)
    /\ cache' = clear_cache(cache)
    /\ UNCHANGED <<writer, run, stream, handle, scan>>

ReadFrames ==
    /\ handle.status = "ok"
    /\ calls < MaxCalls
    /\ calls' = calls + 1
    /\ \E rg \in Ranges(handle.num_frames), is_grayscale \in BOOLEAN,
          env \in Environments(stream) :
         \E r \in { ReadFramesResult(stream, handle, dec, rg[1], rg[2], is_grayscale,
                                     env.seek_ok, env.fault) } :
            /\ dec' = r.dec
            /\ last' = r.last
            /\ res' = LeaveAt(ReadFramesSteps, ExitOf(r.last), {}, res)
    /\ UNCHANGED <<writer, run, stream, handle, cache, scan>>

Next == OpenVideo \/ ReadFrame \/ ReadFrames

Spec == Init /\ [][Next]_vars

----------------------------------------------------------------------------
(* The readers without a cache on the same handle *)

ReadFfmpegFrame ==
    /\ handle.status = "ok"
    /\ calls < MaxCalls
    /\ calls' = calls + 1
    /\ \E target_frame \in -1..handle.num_frames, env \in Environments(stream) :
         \E r \in { read_ffmpeg_frame(stream, handle, dec, target_frame,
                                      env.seek_ok, env.fault) } :
            /\ dec' = r.dec
            /\ last' = r.last
            /\ res' = LeaveAt(ReadFfmpegFrameSteps, ExitOf(r.last), {}, res)
    /\ UNCHANGED <<writer, run, stream, handle, cache, scan>>

ReadH265Frame ==
    /\ handle.status = "ok"
    /\ calls < MaxCalls
    /\ calls' = calls + 1
    /\ \E target_frame \in -1..handle.num_frames, is_grayscale \in BOOLEAN,
          env \in Environments(stream) :
         \E r \in { read_h265_frame(stream, handle, dec, target_frame, is_grayscale,
                                    env.seek_ok, env.fault) } :
            /\ dec' = r.dec
            /\ last' = r.last
            /\ res' = LeaveAt(ReadH265FrameSteps, ExitOf(r.last), {}, res)
    /\ UNCHANGED <<writer, run, stream, handle, cache, scan>>

NextSingle == OpenVideo \/ ReadFfmpegFrame \/ ReadH265Frame

SpecSingle == Init /\ [][NextSingle]_vars

----------------------------------------------------------------------------
(* Calls in which a library call or an allocation fails, and the close *)

\* open_h265_video with a library call failing before the stream's own
\* defect, if it has one, is met
OpenVideoFailing ==
    /\ handle.status = "none"
    /\ \E e \in { OpenResult(stream).err }, f \in OpenFaults :
         /\ ExitIndex(OpenSteps, f.exit) < ExitIndex(OpenSteps, e)
         /\ handle' = NoHandle(f.err)
         /\ last' = Outcome("open", 0, 0, FALSE, FALSE, f.err, <<>>, <<>>, FALSE)
         /\ res' = LeaveAt(OpenSteps, f.exit, f.got, res)
    /\ cache' = EmptyCache
    /\ dec' = [pos |-> 1, dpb |-> {}, drain |-> FALSE]
    /\ UNCHANGED <<writer, run, stream, scan, calls>>

\* read_h265_frame on a miss with init_decode_state or the mxMalloc of
\* temp_buffer failing: the cache is cleared, nothing is sought or decoded
ReadFrameNoMemory ==
    /\ handle.status = "ok"
    /\ calls < MaxCalls
    /\ calls' = calls + 1
    /\ \E target_frame \in 0..(handle.num_frames - 1), is_grayscale \in BOOLEAN,
          f \in DecodeFaults :
         /\ ~(find_in_cache(cache, target_frame) >= 0 /\ cache.has_frames)
         /\ cache' = [clear_cache(cache) EXCEPT !.is_grayscale = is_grayscale,
                                                !.frame_size = FrameSize(is_grayscale)]
         /\ last' = Outcome("readFrame", target_frame, target_frame, is_grayscale,
                        FALSE, f.err, <<>>, <<>>, FALSE)
         /\ res' = LeaveAt(ReadFrameSteps, f.exit, f.got, res)
    /\ UNCHANGED <<writer, run, stream, handle, dec, scan>>

\* read_h265_frames with init_decode_state or the mxCalloc of captured failing
ReadFramesNoMemory ==
    /\ handle.status = "ok"
    /\ calls < MaxCalls
    /\ calls' = calls + 1
    /\ \E rg \in { q \in Ranges(handle.num_frames) :
                     q[1] >= 0 /\ q[2] < handle.num_frames /\ q[2] >= q[1] },
          is_grayscale \in BOOLEAN, f \in DecodeFaults :
         /\ last' = Outcome("readFrames", rg[1], rg[2], is_grayscale, FALSE, f.err,
                        <<>>, <<>>, FALSE)
         /\ res' = LeaveAt(ReadFramesSteps, f.exit, f.got, res)
    /\ UNCHANGED <<writer, run, stream, handle, cache, dec, scan>>

\* the read_h265_frame without a cache with one of its three allocations failing
ReadH265FrameNoMemory ==
    /\ handle.status = "ok"
    /\ calls < MaxCalls
    /\ calls' = calls + 1
    /\ \E target_frame \in 0..(handle.num_frames - 1), is_grayscale \in BOOLEAN,
          f \in FrameFaults("out_frame") :
         /\ last' = Outcome("readH265Frame", target_frame, target_frame, is_grayscale,
                        FALSE, f.err, <<>>, <<>>, FALSE)
         /\ res' = LeaveAt(ReadH265FrameSteps, f.exit, f.got, res)
    /\ UNCHANGED <<writer, run, stream, handle, cache, dec, scan>>

\* the read_h265_frame without a cache finding its picture and sws_getContext
\* failing
ReadH265FrameNoScaler ==
    /\ handle.status = "ok"
    /\ calls < MaxCalls
    /\ calls' = calls + 1
    /\ \E target_frame \in 0..(handle.num_frames - 1), is_grayscale \in BOOLEAN,
          env \in Environments(stream) :
         \E r \in { read_h265_frame(stream, handle, dec, target_frame, is_grayscale,
                                    env.seek_ok, env.fault) } :
            /\ r.last.status = "ok"
            /\ dec' = r.dec
            /\ last' = [r.last EXCEPT !.status = "error", !.err = "sws", !.out = <<>>]
            /\ res' = LeaveAt(ReadH265FrameSteps, "sws", {}, res)
    /\ UNCHANGED <<writer, run, stream, handle, cache, scan>>

\* close_h265_video on the handle
CloseVideo ==
    /\ handle.status = "ok"
    /\ handle' = [handle EXCEPT !.status = "closed"]
    /\ last' = Outcome("close", 0, 0, FALSE, FALSE, "", <<>>, <<>>, FALSE)
    /\ res' = LeaveAt(CloseSteps, "", {}, res)
    /\ UNCHANGED <<writer, run, stream, cache, dec, scan, calls>>

NextLife ==
    \/ OpenVideo
    \/ ReadFrame
    \/ ReadFrames
    \/ ReadH265Frame
    \/ ReadFrameNoMemory
    \/ ReadFramesNoMemory
    \/ ReadH265FrameNoMemory
    \/ ReadH265FrameNoScaler
    \/ CloseVideo

SpecLife == Init /\ [][NextLife]_vars

----------------------------------------------------------------------------
(* The writer: open_h265_write, write_h265_frame, write_h265_frames *)

InitWrite ==
    /\ stream = ClosedGopStream(1, {1}, FALSE, 30, 0)
    /\ handle = NoHandleYet
    /\ cache = EmptyCache
    /\ dec = [pos |-> 1, dpb |-> {}, drain |-> FALSE]
    /\ last = NoCall
    /\ scan = IdleScan
    /\ calls = 0
    /\ res = {}
    /\ run = IdleRun
    /\ writer = NoWriter

\* state->next_pts = 0; state->pts_increment = 1
OpenWrite ==
    /\ writer.status = "none"
    /\ writer' = [writer EXCEPT !.status = "ok", !.next_pts = 0, !.pts_increment = 1]
    /\ UNCHANGED <<stream, handle, cache, dec, last, scan, calls, res, run>>

\* The library calls and allocations of a write that can fail, in the order
\* of the code; "" is the call in which none fails
WriteFaults ==
    {"", "badDimensions", "makeWritable", "allocBuffer", "allocPacket", "sendFrame",
     "receivePacket", "writeFrame"}

\* frame->pts = state->next_pts; state->next_pts += state->pts_increment
StampFrame(w) == [w EXCEPT !.next_pts = @ + w.pts_increment]

\* One frame through write_h265_frame, from the argument checks on
WriteOne(w, fault) ==
    IF fault \in {"badDimensions", "makeWritable", "allocBuffer"}
    THEN [w EXCEPT !.err = fault]
    ELSE LET w2 == StampFrame(w)
         IN IF fault \in {"allocPacket", "sendFrame"}
            THEN [w2 EXCEPT !.err = fault]
            ELSE [w2 EXCEPT !.accepted = Append(@, w.next_pts), !.err = fault]

\* One turn of for (f = 0; f < num_frames; f++) of write_h265_frames; the
\* packet and the conversion buffer were allocated before the loop
WriteBatchStep(s, f, fault) ==
    LET here == IF f = fault.at THEN fault.kind ELSE ""
    IN IF here = "makeWritable" THEN [s EXCEPT !.err = here, !.stop = TRUE]
       ELSE LET w2 == StampFrame(s)
            IN IF here = "sendFrame" THEN [w2 EXCEPT !.err = here, !.stop = TRUE]
               ELSE [w2 EXCEPT !.accepted = Append(@, s.next_pts), !.err = here,
                               !.stop = here # ""]

\* Loop from lo to hi, leaving at the first turn that stops
RECURSIVE WriteBatchLoop(_, _, _, _)
WriteBatchLoop(s, f, num_frames, fault) ==
    IF f >= num_frames \/ s.stop THEN s
    ELSE WriteBatchLoop(WriteBatchStep(s, f, fault), f + 1, num_frames, fault)

WriteBatch(w, num_frames, fault) ==
    IF fault.kind \in {"badDimensions", "allocPacket", "allocBuffer"}
    THEN [w EXCEPT !.err = fault.kind]
    ELSE LET s == WriteBatchLoop([status |-> w.status, next_pts |-> w.next_pts,
                                  pts_increment |-> w.pts_increment,
                                  accepted |-> w.accepted, err |-> "",
                                  writes |-> w.writes, stop |-> FALSE],
                                 0, num_frames, fault)
         IN [status |-> s.status, next_pts |-> s.next_pts,
             pts_increment |-> s.pts_increment, accepted |-> s.accepted,
             err |-> s.err, writes |-> s.writes]

WriteFrame ==
    /\ writer.status = "ok"
    /\ writer.writes < MaxWrites
    /\ \E fault \in WriteFaults :
         writer' = [WriteOne(writer, fault) EXCEPT !.writes = @ + 1]
    /\ UNCHANGED <<stream, handle, cache, dec, last, scan, calls, res, run>>

WriteFrames ==
    /\ writer.status = "ok"
    /\ writer.writes < MaxWrites
    /\ \E num_frames \in 0..MaxBatch, kind \in WriteFaults, at \in 0..(MaxBatch - 1) :
         writer' = [WriteBatch(writer, num_frames, [kind |-> kind, at |-> at])
                      EXCEPT !.writes = @ + 1]
    /\ UNCHANGED <<stream, handle, cache, dec, last, scan, calls, res, run>>

NextWrite == OpenWrite \/ WriteFrame \/ WriteFrames

SpecWrite == InitWrite /\ [][NextWrite]_vars

----------------------------------------------------------------------------
(* Calls on a handle that was closed *)

\* if (!fmt_ctx || !codec_ctx || !cache): the pointers are read from the
\* video_info struct of the caller.  open stores them; close gets the struct
\* by value and cannot clear them, so they are null only before open.
PointersNull(h) == h.status \notin {"ok", "closed"}

\* What a call can do once it dereferences memory that close has freed: it
\* may seem to work, report an error of its own, or bring the process down
FreedOutcomes(op, a, b, gray) ==
    { Outcome(op, a, b, gray, FALSE, err, <<>>, <<>>, FALSE) :
        err \in {"", "decode", "notFound", "crash"} }

\* read_h265_frame on the struct of a closed handle
ReadFrameClosed ==
    /\ handle.status = "closed"
    /\ calls < MaxCalls
    /\ calls' = calls + 1
    /\ \E target_frame \in -1..handle.num_frames, is_grayscale \in BOOLEAN :
         last' \in IF PointersNull(handle)
                  THEN { Outcome("readFrame", target_frame, target_frame, is_grayscale,
                                 FALSE, "nullPtr", <<>>, <<>>, FALSE) }
                  ELSE IF target_frame < 0 \/ target_frame >= handle.num_frames
                  THEN { Outcome("readFrame", target_frame, target_frame, is_grayscale,
                                 FALSE, "invalidIndex", <<>>, <<>>, FALSE) }
                  ELSE FreedOutcomes("readFrame", target_frame, target_frame,
                                     is_grayscale)
    /\ UNCHANGED <<writer, run, stream, handle, cache, dec, scan, res>>

\* read_h265_frames on the struct of a closed handle
ReadFramesClosed ==
    /\ handle.status = "closed"
    /\ calls < MaxCalls
    /\ calls' = calls + 1
    /\ \E rg \in Ranges(handle.num_frames), is_grayscale \in BOOLEAN :
         last' \in IF PointersNull(handle)
                  THEN { Outcome("readFrames", rg[1], rg[2], is_grayscale,
                                 FALSE, "nullPtr", <<>>, <<>>, FALSE) }
                  ELSE IF rg[1] < 0 \/ rg[1] >= handle.num_frames
                          \/ rg[2] < 0 \/ rg[2] >= handle.num_frames
                  THEN { Outcome("readFrames", rg[1], rg[2], is_grayscale,
                                 FALSE, "invalidIndex", <<>>, <<>>, FALSE) }
                  ELSE IF rg[2] < rg[1]
                  THEN { Outcome("readFrames", rg[1], rg[2], is_grayscale,
                                 FALSE, "invalidRange", <<>>, <<>>, FALSE) }
                  ELSE FreedOutcomes("readFrames", rg[1], rg[2], is_grayscale)
    /\ UNCHANGED <<writer, run, stream, handle, cache, dec, scan, res>>

\* close_h265_video on the struct of a closed handle: free_frame_cache,
\* avcodec_free_context and avformat_close_input on the pointers freed before
CloseVideoAgain ==
    /\ handle.status = "closed"
    /\ calls < MaxCalls
    /\ calls' = calls + 1
    /\ last' \in IF PointersNull(handle)
                 THEN { Outcome("close", 0, 0, FALSE, FALSE, "", <<>>, <<>>, FALSE) }
                 ELSE FreedOutcomes("close", 0, 0, FALSE)
    /\ res' = LeaveAt(CloseSteps, "", {}, res)
    /\ UNCHANGED <<writer, run, stream, handle, cache, dec, scan>>

NextClosed ==
    \/ OpenVideo
    \/ ReadFrame
    \/ CloseVideo
    \/ ReadFrameClosed
    \/ ReadFramesClosed
    \/ CloseVideoAgain

SpecClosed == Init /\ [][NextClosed]_vars

----------------------------------------------------------------------------
(* The loops of a call, one turn at a time.  A call that is followed keeps  *)
(* its loop variables in run: the place of the next packet, the pictures    *)
(* the decoder holds, what was found so far.  Each av_read_frame and each   *)
(* avcodec_receive_frame is a step; the step that returns gives the handle, *)
(* the cache and the decoder what the whole call gives them.                *)

\* An av_read_frame that delivers the same packet again and again
NextPacket_Same(k) == k

\* av_read_frame of the decode loops goes on to the packet after the one it
\* delivered
NextPacket(k) == k + 1

\* the number of frames a range asks for
RunWanted == run.b - run.a + 1

\* the tests that end the read loop before av_read_frame is called
RunComplete == run.op = "readFrames" /\ ~(Cardinality(run.got) < RunWanted)

\* the state after the read loop: the drain if the call still lacks frames
AfterReadLoop(r) ==
    IF (r.op = "readFrame" /\ ~r.found)
       \/ (r.op = "readFrames" /\ Cardinality(r.got) < r.b - r.a + 1)
    THEN [r EXCEPT !.phase = "drain", !.drain = TRUE]
    ELSE [r EXCEPT !.phase = "return"]

\* captured[local_idx] = 1; frames_captured++; and the copy to
\* frame_buffer + local_idx * frame_size, kept in written as the pictures
\* slot local_idx received, in the order they were copied
RunCapture(r, p, local_idx) ==
    [r EXCEPT !.captured[local_idx + 1] = TRUE,
              !.frames_captured = @ + 1,
              !.written[local_idx + 1] = Append(@, p)]

\* the loop variables after avcodec_receive_frame gave picture p
RunTake(r, p) ==
    LET frame_idx == FrameIdxOf(stream.pkts[p].pts, handle.pts_increment)
        r1 == [r EXCEPT !.dpb = @ \ {p},
                 !.fails = FALSE,
                 !.found = @ \/ (r.op = "readFrame" /\ frame_idx = r.a),
                 !.got = IF r.op = "readFrames" /\ frame_idx >= r.a /\ frame_idx <= r.b
                         THEN @ \cup {frame_idx} ELSE @]
    IN IF r.op = "readFrames" /\ frame_idx >= r.a /\ frame_idx <= r.b
          /\ ~r.captured[frame_idx - r.a + 1]
       THEN RunCapture(r1, p, frame_idx - r.a)
       ELSE r1

\* open_h265_video enters its first pass
RunOpen ==
    /\ handle.status = "none"
    /\ run.phase = "idle"
    /\ OpenResult(stream).err \notin {"noVideo", "noFrameRate", "badFrameRate", "divideByZero"}
    /\ run' = [IdleRun EXCEPT !.op = "open", !.phase = "pass1",
                              !.pass = [bad_nal |-> -1, num_frames |-> 0, stop |-> FALSE]]
    /\ UNCHANGED <<writer, stream, handle, cache, dec, last, scan, calls, res>>

\* one turn of the first while (av_read_frame(fmt_ctx, pkt) >= 0)
RunFirstPass ==
    /\ run.phase = "pass1"
    /\ run' = IF run.pass.stop THEN [run EXCEPT !.phase = "return"]
              ELSE IF run.pos > Len(stream.pkts)
              THEN IF run.pass.num_frames = 0
                   THEN [run EXCEPT !.phase = "return"]
                   ELSE [run EXCEPT !.phase = "pass2", !.pos = 1,
                           !.pass = [misaligned |-> FALSE,
                                     dts_array |-> [ i \in 1..run.pass.num_frames |-> 0 ],
                                     frame_count |-> [ i \in 1..run.pass.num_frames |-> 0 ],
                                     stop |-> FALSE, num_frames |-> run.pass.num_frames]]
              ELSE [run EXCEPT !.pos = @ + 1,
                               !.pass = FirstPassStep(stream, run.pass, run.pos)]
    /\ UNCHANGED <<writer, stream, handle, cache, dec, last, scan, calls, res>>

\* one turn of the second while (av_read_frame(fmt_ctx, pkt) >= 0)
RunSecondPass ==
    /\ run.phase = "pass2"
    /\ run' = IF run.pass.stop \/ run.pos > Len(stream.pkts)
              THEN [run EXCEPT !.phase = "return"]
              ELSE [run EXCEPT !.pos = @ + 1,
                               !.pass = SecondPassStep(stream, run.pass, run.pos,
                                            PtsIncrementOf(stream), run.pass.num_frames)]
    /\ UNCHANGED <<writer, stream, handle, cache, dec, last, scan, calls, res>>

\* read_h265_frame misses and decode_gop_to_cache enters its read loop
RunReadFrame ==
    /\ handle.status = "ok"
    /\ run.phase \in {"idle", "done"}
    /\ calls < MaxRuns
    /\ \E target_frame \in 0..(handle.num_frames - 1), is_grayscale \in BOOLEAN,
          env \in Environments(stream) :
         /\ ~(find_in_cache(cache, target_frame) >= 0 /\ cache.has_frames)
         /\ run' = [IdleRun EXCEPT
                      !.op = "readFrame", !.phase = "read", !.a = target_frame,
                      !.b = target_frame, !.gray = is_grayscale,
                      !.seek_ok = env.seek_ok, !.fault = env.fault,
                      !.pos = SeekForDecode(stream, handle.dts[target_frame + 1],
                                            env.seek_ok).pos,
                      !.dpb = avcodec_flush_buffers(dec).dpb,
                      !.drain = avcodec_flush_buffers(dec).drain]
    /\ UNCHANGED <<writer, stream, handle, cache, dec, last, scan, calls, res>>

\* read_h265_frames passes its index checks and decode_frame_range_rowmajor
\* enters its read loop
RunReadFrames ==
    /\ handle.status = "ok"
    /\ run.phase \in {"idle", "done"}
    /\ calls < MaxRuns
    /\ \E rg \in { q \in Ranges(handle.num_frames) :
                     q[1] >= 0 /\ q[2] < handle.num_frames /\ q[2] >= q[1] },
          is_grayscale \in BOOLEAN, env \in Environments(stream) :
         run' = [IdleRun EXCEPT
                   !.op = "readFrames", !.phase = "read", !.a = rg[1], !.b = rg[2],
                   !.gray = is_grayscale, !.seek_ok = env.seek_ok, !.fault = env.fault,
                   !.pos = SeekForDecode(stream, handle.dts[rg[1] + 1], env.seek_ok).pos,
                   !.dpb = avcodec_flush_buffers(dec).dpb,
                   !.drain = avcodec_flush_buffers(dec).drain,
                   !.captured = [ i \in 1..(rg[2] - rg[1] + 1) |-> FALSE ],
                   !.written = [ i \in 1..(rg[2] - rg[1] + 1) |-> <<>> ]]
    /\ UNCHANGED <<writer, stream, handle, cache, dec, last, scan, calls, res>>

\* one av_read_frame of the read loop and what follows it up to the first
\* avcodec_receive_frame
RunRead ==
    /\ run.phase = "read"
    /\ run' = IF RunComplete \/ run.pos > Len(stream.pkts) THEN AfterReadLoop(run)
              ELSE IF ~stream.pkts[run.pos].vid
              THEN [run EXCEPT !.pos = NextPacket(run.pos)]
              ELSE IF run.op = "readFrame" /\ stream.pkts[run.pos].key
                      /\ run.first_key /\ run.found
              THEN AfterReadLoop([run EXCEPT !.pos = NextPacket(run.pos)])
              ELSE IF SendFails(run.fault, run.pos) \/ run.drain
              THEN [run EXCEPT !.pos = NextPacket(run.pos),
                               !.first_key = @ \/ (run.op = "readFrame"
                                                   /\ stream.pkts[run.pos].key)]
              ELSE [run EXCEPT !.pos = NextPacket(run.pos),
                               !.first_key = @ \/ (run.op = "readFrame"
                                                   /\ stream.pkts[run.pos].key),
                               !.dpb = @ \cup {run.pos},
                               !.fails = ReceiveFails(run.fault, run.pos),
                               !.phase = "receive"]
    /\ UNCHANGED <<writer, stream, handle, cache, dec, last, scan, calls, res>>

\* one avcodec_receive_frame of the inner loop
RunReceive ==
    /\ run.phase = "receive"
    /\ run' = IF RunComplete THEN [run EXCEPT !.phase = "read"]
              ELSE IF run.fails THEN [run EXCEPT !.phase = "return"]
              ELSE IF ~PictureReady(stream, run.dpb, run.drain)
              THEN [run EXCEPT !.phase = "read"]
              ELSE RunTake(run, NextPicture(stream, run.dpb))
    /\ UNCHANGED <<writer, stream, handle, cache, dec, last, scan, calls, res>>

\* one avcodec_receive_frame of the loop after avcodec_send_packet(codec_ctx, NULL)
RunDrain ==
    /\ run.phase = "drain"
    /\ run' = IF RunComplete \/ ~PictureReady(stream, run.dpb, TRUE)
              THEN [run EXCEPT !.phase = "return"]
              ELSE RunTake(run, NextPicture(stream, run.dpb))
    /\ UNCHANGED <<writer, stream, handle, cache, dec, last, scan, calls, res>>

\* the call returns: what the whole call leaves in the handle, the cache,
\* the decoder and the resources
RunReturn ==
    /\ run.phase = "return"
    /\ run' = [run EXCEPT !.phase = "done"]
    /\ \/ /\ run.op = "open"
          /\ \E h \in { OpenResult(stream) } :
               /\ handle' = h
               /\ last' = Outcome("open", 0, 0, FALSE, FALSE, h.err, <<>>, <<>>, FALSE)
               /\ res' = LeaveAt(OpenSteps, h.err, {}, res)
          /\ UNCHANGED <<cache, dec, calls>>
       \/ /\ run.op = "readFrame"
          /\ \E r \in { ReadFrameResult(stream, handle, cache, dec, run.a, run.gray,
                                        run.seek_ok, run.fault) } :
               /\ cache' = r.cache
               /\ dec' = r.dec
               /\ last' = r.last
               /\ res' = LeaveAt(ReadFrameSteps, ExitOf(r.last), {}, res)
          /\ calls' = calls + 1
          /\ UNCHANGED handle
       \/ /\ run.op = "readFrames"
          /\ \E r \in { ReadFramesResult(stream, handle, dec, run.a, run.b, run.gray,
                                         run.seek_ok, run.fault) } :
               /\ dec' = r.dec
               /\ last' = r.last
               /\ res' = LeaveAt(ReadFramesSteps, ExitOf(r.last), {}, res)
          /\ calls' = calls + 1
          /\ UNCHANGED <<handle, cache>>
    /\ UNCHANGED <<writer, stream, scan>>

NextRun ==
    \/ RunOpen
    \/ RunFirstPass
    \/ RunSecondPass
    \/ RunReadFrame
    \/ RunReadFrames
    \/ RunRead
    \/ RunReceive
    \/ RunDrain
    \/ RunReturn

SpecRun == Init /\ [][NextRun]_vars

\* the turns of the loops, and the return as far as run shows it
RunLoops == RunFirstPass \/ RunSecondPass \/ RunRead \/ RunReceive \/ RunDrain

RunLeave == run.phase = "return" /\ run' = [run EXCEPT !.phase = "done"]

\* the caller's thread runs a call on until it returns: a turn that can be
\* taken is taken
SpecRunFair == SpecRun /\ WF_vars(RunLoops) /\ WF_run(RunLeave)

----------------------------------------------------------------------------
(* Opening streams with defects: timestamps that repeat, are missing, fall  *)
(* outside the index or are absent (AV_NOPTS_VALUE), packets of other       *)
(* streams, timing that does not divide, NAL units of every kind in either  *)
(* framing.                                                                *)

OpenPkt(vid, pts, k, units, framing, length_size) ==
    [vid |-> vid, key |-> TRUE, pts |-> pts, dts |-> 100 + k, units |-> units,
     data |-> PacketData(units, framing, length_size)]

OpenStream(pkts, tb, fr, hasVideo, hevc, hvcc, lengthSizeMinusOne) ==
    [pkts |-> pkts, tb |-> tb, fr |-> fr, hasVideo |-> hasVideo, hevc |-> hevc,
     hvcc |-> hvcc, lengthSizeMinusOne |-> lengthSizeMinusOne, delay |-> 0]

PtsChoices == { Ts(v) : v \in -1..MaxOpenPts } \cup { NoPts }

\* a packet of another stream, or a video packet with one of the timestamps
PktChoices ==
    { [vid |-> FALSE, pts |-> Ts(0)] } \cup { [vid |-> TRUE, pts |-> p] : p \in PtsChoices }

PtsStreams ==
    UNION { { OpenStream([ k \in 1..n |->
                             OpenPkt(c[k].vid, c[k].pts, k, CleanUnits, "hvcc", 4) ],
                         Timing(tb_den).tb, Timing(tb_den).fr, TRUE, TRUE, TRUE, 3) :
                c \in [1..n -> PktChoices], tb_den \in {30, 60} } :
            n \in 1..MaxOpenPkts }

TimingChoices ==
    { [tb |-> [num |-> tn, den |-> td], fr |-> [num |-> fn, den |-> fd]] :
        tn \in {1}, td \in {30, 60, 90}, fn \in {0, 25, 30}, fd \in {0, 1} }

TimingStreams ==
    { OpenStream([ k \in 1..n |->
                     OpenPkt(TRUE, Ts((k - 1) * (t.tb.den \div 30)), k, CleanUnits, "hvcc", 4) ],
                 t.tb, t.fr, hasVideo, TRUE, TRUE, 3) :
        t \in TimingChoices, hasVideo \in BOOLEAN, n \in 0..1 }

UnitChoices ==
    { [type |-> t, len |-> 3] :
        t \in OpenGopTypes \cup {HEVC_NAL_TRAIL_R, HEVC_NAL_IDR_W_RADL, HEVC_NAL_AUD} }
    \cup { [type |-> 0, len |-> 0] }

UnitLists == UNION { [1..n -> UnitChoices] : n \in 1..MaxUnits }

\* hvcC extradata with 4-byte or 2-byte lengths, or no hvcC record and Annex B
Containers ==
    { [hvcc |-> TRUE, lengthSizeMinusOne |-> 3, framing |-> "hvcc"],
      [hvcc |-> TRUE, lengthSizeMinusOne |-> 1, framing |-> "hvcc"],
      [hvcc |-> FALSE, lengthSizeMinusOne |-> 3, framing |-> "annexb"] }

\* one packet, or a clean packet and then one, carrying any list of units
NalStreams ==
    { OpenStream([ k \in 1..n |->
                     OpenPkt(TRUE, Ts(k - 1), k, IF k = n THEN units ELSE CleanUnits,
                             c.framing, c.lengthSizeMinusOne + 1) ],
                 Timing(30).tb, Timing(30).fr, TRUE, hevc, c.hvcc, c.lengthSizeMinusOne) :
        n \in 1..2, units \in UnitLists, c \in Containers, hevc \in BOOLEAN }

OpenStreams == PtsStreams \cup TimingStreams \cup NalStreams

InitOpen ==
    /\ stream \in OpenStreams
    /\ handle = NoHandleYet
    /\ cache = EmptyCache
    /\ dec = [pos |-> 1, dpb |-> {}, drain |-> FALSE]
    /\ last = NoCall
    /\ scan = IdleScan
    /\ calls = 0
    /\ res = {}
    /\ run = IdleRun
    /\ writer = NoWriter

NextOpen == OpenVideo

SpecOpen == InitOpen /\ [][NextOpen]_vars

NextOpenFailing == OpenVideo \/ OpenVideoFailing

\* Streams with defects of several kinds at once: n packets of any
\* timestamps, the last one carrying any list of units, in every container,
\* two ticks to the frame
MixedStreams(n) ==
    { OpenStream([ k \in 1..n |->
                     OpenPkt(c[k].vid, c[k].pts, k,
                             IF k = n THEN units ELSE CleanUnits,
                             ct.framing, ct.lengthSizeMinusOne + 1) ],
                 Timing(60).tb, Timing(60).fr, TRUE, TRUE, ct.hvcc,
                 ct.lengthSizeMinusOne) :
        c \in [1..n -> PktChoices], units \in UnitLists, ct \in Containers }

InitOpenMixed ==
    /\ stream \in UNION { MixedStreams(n) : n \in 1..2 }
    /\ handle = NoHandleYet
    /\ cache = EmptyCache
    /\ dec = [pos |-> 1, dpb |-> {}, drain |-> FALSE]
    /\ last = NoCall
    /\ scan = IdleScan
    /\ calls = 0
    /\ res = {}
    /\ run = IdleRun
    /\ writer = NoWriter

SpecOpenMixed == InitOpenMixed /\ [][NextOpen]_vars

SpecOpenFailing == InitOpen /\ [][NextOpenFailing]_vars

----------------------------------------------------------------------------
(* The scanner on its own, over packets of every framing and length size *)

InitScan ==
    /\ stream = ClosedGopStream(1, {1}, FALSE, 30, 0)
    /\ handle = NoHandleYet
    /\ cache = EmptyCache
    /\ dec = [pos |-> 1, dpb |-> {}, drain |-> FALSE]
    /\ last = NoCall
    /\ scan = IdleScan
    /\ calls = 0
    /\ res = {}
    /\ run = IdleRun
    /\ writer = NoWriter

ScanPacket ==
    /\ ~scan.done
    /\ \E units \in UnitLists, framing \in {"hvcc", "annexb"}, length_size \in 1..4 :
         LET data == PacketData(units, framing, length_size)
         IN scan' = [data |-> data, length_size |-> length_size, units |-> units,
                     framing |-> framing, done |-> TRUE,
                     ret |-> check_hevc_packet_for_open_gop(data, Len(data),
                                                            length_size).ret,
                     pos |-> ScanLoop(data, Len(data), length_size, 0, TRUE, {}).pos,
                     reads |-> ScanLoop(data, Len(data), length_size, 0, TRUE, {}).reads]
    /\ UNCHANGED <<writer, run, stream, handle, cache, dec, last, calls, res>>

\* Packets of any bytes: the scanner is given whatever the file holds
ScanByteChoices == {0, 2, 42, 127, 255}

ScanData == UNION { [1..n -> ScanByteChoices] : n \in 0..MaxScanLen }

ScanBytes ==
    /\ ~scan.done
    /\ \E data \in ScanData, length_size \in 1..4, wraps \in BOOLEAN :
         \E r \in { ScanLoop(data, Len(data), length_size, 0, wraps, {}) } :
            scan' = [data |-> data, length_size |-> length_size, units |-> <<>>,
                     framing |-> "bytes", done |-> TRUE, ret |-> r.ret,
                     pos |-> r.pos, reads |-> r.reads]
    /\ UNCHANGED <<writer, run, stream, handle, cache, dec, last, calls, res>>

NextScan == ScanPacket \/ ScanBytes

SpecScan == InitScan /\ [][NextScan]_vars

----------------------------------------------------------------------------
(* The 90-frame stream with keyframes at frames 0, 30 and 60, one tick per frame *)

ScenarioFrames == 90
ScenarioKeys == {1, 31, 61}
ScenarioTargets == {0, 45, 50, 65, 89}

ScenarioStreams ==
    { ClosedGopStream(ScenarioFrames, ScenarioKeys, reorder, 30, delay) :
        reorder \in BOOLEAN, delay \in 0..MaxDelay }

SeekEnvironments ==
    { [seek_ok |-> ok, fault |-> NoFault] : ok \in BOOLEAN }

\* the streams with defects in their timestamps, opened and then read where
\* the open succeeds
InitDefects ==
    /\ InitOpen
    /\ stream \in PtsStreams

DefectsReadFrame == ReadFrameWith(0..(handle.num_frames - 1), SeekEnvironments)

NextDefects == OpenVideo \/ DefectsReadFrame \/ ReadFrames

SpecDefects == InitDefects /\ [][NextDefects]_vars

\* Time bases and frame rates as the AVRational fields can hold them: either
\* part zero, the frame rate negative
AnyTimingChoices ==
    { [tb |-> [num |-> tn, den |-> td], fr |-> [num |-> fn, den |-> fd]] :
        tn \in {0, 1}, td \in {0, 30, 60}, fn \in {-30, 0, 30}, fd \in {0, 1} }

AnyTimingStreams ==
    { OpenStream([ k \in 1..n |->
                     OpenPkt(TRUE, Ts((k - 1) * (t.tb.den \div 30)), k, CleanUnits, "hvcc", 4) ],
                 t.tb, t.fr, hasVideo, TRUE, TRUE, 3) :
        t \in AnyTimingChoices, hasVideo \in BOOLEAN, n \in 0..2 }

InitOpenTiming ==
    /\ stream \in AnyTimingStreams
    /\ handle = NoHandleYet
    /\ cache = EmptyCache
    /\ dec = [pos |-> 1, dpb |-> {}, drain |-> FALSE]
    /\ last = NoCall
    /\ scan = IdleScan
    /\ calls = 0
    /\ res = {}
    /\ run = IdleRun
    /\ writer = NoWriter

SpecOpenTiming == InitOpenTiming /\ [][NextOpen]_vars

\* src/read_h265_frames.c on the handle.  Every path of it frees what it
\* allocated (frame_captured, frame, out_frame, pkt, sws_ctx), so that the
\* call leaves the resources as it found them.
ReadH265Frames ==
    /\ handle.status = "ok"
    /\ calls < MaxCalls
    /\ calls' = calls + 1
    /\ \E rg \in Ranges(handle.num_frames), is_grayscale \in BOOLEAN,
          env \in Environments(stream) :
         \E r \in { read_h265_frames(stream, handle, dec, rg[1], rg[2], is_grayscale,
                                     env.seek_ok, env.fault) } :
            /\ dec' = r.dec
            /\ last' = r.last
    /\ UNCHANGED <<writer, run, stream, handle, cache, scan, res>>

NextRanges == OpenVideo \/ ReadFrames \/ ReadH265Frames

SpecRanges == InitDefects /\ [][NextRanges]_vars

\* a range decode of such a stream, one turn of its loops at a time
NextRunRange ==
    \/ RunOpen
    \/ RunFirstPass
    \/ RunSecondPass
    \/ RunReadFrames
    \/ RunRead
    \/ RunReceive
    \/ RunDrain
    \/ RunReturn

SpecRunRange == InitDefects /\ [][NextRunRange]_vars

InitScenario ==
    /\ stream \in { st \in ScenarioStreams : WellFormed(st) }
    /\ handle = NoHandleYet
    /\ cache = EmptyCache
    /\ dec = [pos |-> 1, dpb |-> {}, drain |-> FALSE]
    /\ last = NoCall
    /\ scan = IdleScan
    /\ calls = 0
    /\ res = {}
    /\ run = IdleRun
    /\ writer = NoWriter

ScenarioReadFrame == ReadFrameWith(ScenarioTargets, SeekEnvironments)

NextScenario == OpenVideo \/ ScenarioReadFrame

SpecScenario == InitScenario /\ [][NextScenario]_vars

----------------------------------------------------------------------------
(* What the stream holds, for stating the properties *)

\* The presentation frame numbers of the GOP whose packets include the one
\* that presents frame f
GopFramesOf(st, inc, f) ==
    LET keys == { k \in 1..Len(st.pkts) : st.pkts[k].vid /\ st.pkts[k].key }
        at == CHOOSE k \in 1..Len(st.pkts) : PresentsFrame(st.pkts[k].pts, inc, f)
        head == CHOOSE g \in keys : g <= at /\ \A j \in keys : j <= at => j <= g
        later == { j \in keys : j > at }
        stop == IF later = {} THEN Len(st.pkts) + 1 ELSE Min(later)
    IN { FrameIdxOf(st.pkts[k].pts, inc) : k \in head..(stop - 1) }

\* The picture (packet place) that presents frame f
PictureOfFrame(st, inc, f) ==
    CHOOSE k \in 1..Len(st.pkts) : PresentsFrame(st.pkts[k].pts, inc, f)

\* The last call was a readFrame that missed the cache and filled it
FilledOnMiss ==
    last.op = "readFrame" /\ last.status = "ok" /\ ~last.hit

----------------------------------------------------------------------------
(* The GOP cache *)

\* C1: after a successful cache-miss fill for frame f the cached span
\* [start_frame, start_frame + num_frames) is exactly the GOP containing f,
\* from its keyframe to the last frame before the next keyframe or the end of
\* the stream, also when the decoder gives pictures out late.
C1_SpanIsGop ==
    FilledOnMiss =>
        LET G == GopFramesOf(stream, handle.pts_increment, last.start)
        IN /\ cache.has_frames
           /\ cache.start_frame = Min(G)
           /\ cache.num_frames = Cardinality(G)

\* C3: the bytes a cache hit returns for frame i are the bytes a cache miss on
\* a fresh handle with an empty cache returns for frame i.
C3_CacheTransparent ==
    (last.op = "readFrame" /\ last.status = "ok" /\ last.hit) =>
        last.out = ReadFrameResult(stream, handle, EmptyCache, dec, last.start,
                                   last.gray, TRUE, NoFault).last.out

\* C4: a readFrame asking for a pixel layout other than the one the cache was
\* filled with is never served from the cache.
C4_LayoutChangeRebuilds ==
    (last.op = "readFrame" /\ last.status = "ok" /\ last.hit) =>
        last.gray = cache.is_grayscale

\* C5: whenever the cache holds num_frames > 0 frames, slot k holds the picture
\* of frame start_frame + k, and a request for that frame is a hit returning
\* that picture.
C5_SlotsHoldFrames ==
    (handle.status = "ok" /\ cache.has_frames /\ cache.num_frames > 0) =>
        \A k \in 0..(cache.num_frames - 1) :
            LET f == cache.start_frame + k
            IN /\ f < handle.num_frames
               /\ Slice(cache.frames, k * cache.frame_size + 1, cache.frame_size)
                    = ConvertFrameToMatlab(
                          PictureOfFrame(stream, handle.pts_increment, f),
                          cache.is_grayscale)
               /\ \A g \in BOOLEAN :
                     LET r == ReadFrameResult(stream, handle, cache, dec, f, g,
                                              TRUE, NoFault)
                     IN /\ r.last.hit
                        /\ r.last.out = ConvertFrameToMatlab(
                               PictureOfFrame(stream, handle.pts_increment, f), g)

\* C2: on the 90-frame stream with keyframes at frames 0, 30 and 60 and one
\* tick per frame, readFrame(45) on an empty cache makes exactly one seek and
\* leaves start_frame = 30 and num_frames = 30; readFrame(50) after it is a
\* hit; readFrame(65) after that discards the cache and rebuilds it with
\* start_frame = 60.
C2_Scenario ==
    (calls = 1 /\ FilledOnMiss /\ last.start = 45
       /\ Len(stream.pkts) = ScenarioFrames /\ handle.pts_increment = 1) =>
        /\ Len(last.seeks) = 1
        /\ cache.start_frame = 30
        /\ cache.num_frames = 30
        /\ \A g2 \in BOOLEAN, e2 \in SeekEnvironments :
              LET r2 == ReadFrameResult(stream, handle, cache, dec, 50, g2,
                                        e2.seek_ok, e2.fault)
              IN /\ r2.last.hit
                 /\ \A g3 \in BOOLEAN, e3 \in SeekEnvironments :
                       LET r3 == ReadFrameResult(stream, handle, r2.cache, r2.dec, 65,
                                                 g3, e3.seek_ok, e3.fault)
                       IN /\ ~r3.last.hit
                          /\ r3.last.status = "ok"
                          /\ r3.cache.start_frame = 60

----------------------------------------------------------------------------
(* Ranges and decoder errors *)

\* C9: the output of a successful readFrameRange(a, b), cut into per-frame
\* blocks, is block for block what readFrame returns for a, ..., b; so
\* readFrameRange(i, i) and readFrame(i) are byte-identical.
C9_RangeEqualsSingles ==
    (last.op = "readFrames" /\ last.status = "ok") =>
        \A i \in last.start..last.end :
            Slice(last.out, (i - last.start) * FrameSize(last.gray) + 1,
                  FrameSize(last.gray))
              = ReadFrameResult(stream, handle, cache, dec, i, last.gray,
                                TRUE, NoFault).last.out

\* C10: a request during which the decoder rejected a submitted packet ends
\* with the decode error.
C10_RejectedPacketAborts ==
    (last.op \in {"readFrame", "readFrames"} /\ last.rejected) =>
        (last.status = "error" /\ last.err = "decode")

----------------------------------------------------------------------------
(* The frame index built by open *)

\* the places of the video packets whose timestamp is that of frame i
PacketsOfFrame(st, inc, i) ==
    { k \in 1..Len(st.pkts) : st.pkts[k].vid /\ PresentsFrame(st.pkts[k].pts, inc, i) }

\* open got as far as building the index: a video stream, timing that divides
TimingValid(st) ==
    /\ st.hasVideo
    /\ st.fr.num # 0 /\ st.fr.den # 0
    /\ st.tb.num * st.fr.num # 0
    /\ CRem(st.tb.den * st.fr.den, st.tb.num * st.fr.num) = 0
    /\ PtsIncrementOf(st) # 0

\* C6: when open succeeds on a stream with N video packets, every frame number
\* i in [0, N) has exactly one video packet with pts / pts_increment = i, and
\* dts[i] is the decode timestamp of that packet; so open does not succeed when
\* some frame number has no packet.
C6_IndexComplete ==
    (last.op = "open" /\ handle.status = "ok") =>
        /\ handle.num_frames = Len(VideoPkts(stream))
        /\ \A i \in 0..(handle.num_frames - 1) :
              LET P == PacketsOfFrame(stream, handle.pts_increment, i)
              IN /\ Cardinality(P) = 1
                 /\ \A k \in P : handle.dts[i + 1] = stream.pkts[k].dts

\* the frame numbers in [0, N) that several video packets present, and those
\* that none presents
DuplicateFrames(st) ==
    { i \in 0..(Len(VideoPkts(st)) - 1) :
        Cardinality(PacketsOfFrame(st, PtsIncrementOf(st), i)) > 1 }

MissingFrames(st) ==
    { i \in 0..(Len(VideoPkts(st)) - 1) : PacketsOfFrame(st, PtsIncrementOf(st), i) = {} }

\* open came to the verification of the index
IndexVerified ==
    last.op = "open" /\ TimingValid(stream)
    /\ handle.err \in {"", "missingPTS", "duplicatePTS"}

\* C7: open on a stream where several video packets present the same frame
\* number fails with the duplicate-pts error, and open on a stream where a
\* frame number has no packet fails with the missing-pts error.
C7_ErrorKindMatchesDefect ==
    IndexVerified =>
        /\ DuplicateFrames(stream) # {} => handle.err = "duplicatePTS"
        /\ (MissingFrames(stream) # {} /\ DuplicateFrames(stream) = {})
              => handle.err = "missingPTS"

\* C8: open on an HEVC stream one of whose video packets holds a NAL unit of
\* an open-GOP type (CRA, BLA, RASL), wherever in the packet and after whatever
\* other units, fails with the open-GOP error and gives no handle.
C8_OpenGopRejected ==
    (last.op = "open" /\ TimingValid(stream) /\ stream.hevc
       /\ \E k \in 1..Len(stream.pkts) :
             stream.pkts[k].vid /\ HasOpenGopUnit(stream.pkts[k].units)) =>
        (handle.status = "error" /\ handle.err = "openGOP")
----------------------------------------------------------------------------
(* Requests and what they leave behind *)

\* C11: a range read that captured fewer frames than end - start + 1 ends with
\* the not-found error, and a successful one returns a buffer in which every
\* slot was written with the picture of its frame.
C11_RangeComplete ==
    (last.op = "readFrames" /\ last.err \notin {"invalidIndex", "invalidRange"}) =>
        /\ (last.captured >= 0 /\ last.captured < last.end - last.start + 1)
              => (last.status = "error" /\ last.err = "notFound")
        /\ last.status = "ok" =>
              /\ Len(last.out) = (last.end - last.start + 1) * FrameSize(last.gray)
              /\ \A i \in last.start..last.end :
                    Slice(last.out, (i - last.start) * FrameSize(last.gray) + 1,
                          FrameSize(last.gray))
                      = CopyFrameRowMajor(
                            PictureOfFrame(stream, handle.pts_increment, i), last.gray)

\* a range of two or more frames was read in full, and a range read came up short
C11_Witness ==
    /\ last.op = "readFrames" /\ last.status = "ok" /\ last.end > last.start
    /\ stream.delay > 0 /\ dec.drain

C11_WitnessShort ==
    last.op = "readFrames" /\ last.err = "notFound" /\ last.captured >= 0
      /\ last.captured < last.end - last.start + 1
\* C12: on a handle of a successful open, whatever requests came before,
\* readFrame(i) for every i in [0, num_frames) succeeds, when the decoder
\* reports no error, and returns the picture presented at i * pts_increment.
C12_EveryFrameReadable ==
    handle.status = "ok" =>
        \A i \in 0..(handle.num_frames - 1), g \in BOOLEAN, ok \in BOOLEAN :
            LET r == ReadFrameResult(stream, handle, cache, dec, i, g, ok, NoFault)
            IN /\ r.last.status = "ok"
               /\ r.last.out = ConvertFrameToMatlab(
                      PictureOfFrame(stream, handle.pts_increment, i), g)

\* The decoder and demuxer of a freshly opened handle
FreshDec == [pos |-> 1, dpb |-> {}, drain |-> FALSE]

\* The last call was a read request that failed
FailedRead ==
    last.op \in {"readFrame", "readFrames"} /\ last.status = "error"

\* C13: after a failed read request, whatever stream position and decoder
\* state it left, a later valid readFrame or readFrameRange on the handle
\* returns what it returns on a freshly opened handle.
C13_UsableAfterFailure ==
    (handle.status = "ok" /\ FailedRead) =>
        \A g \in BOOLEAN, ok \in BOOLEAN :
            /\ \A i \in 0..(handle.num_frames - 1) :
                  ReadFrameResult(stream, handle, cache, dec, i, g, ok, NoFault).last
                    = ReadFrameResult(stream, handle, EmptyCache, FreshDec, i, g, ok,
                                      NoFault).last
            /\ \A a \in 0..(handle.num_frames - 1), b \in 0..(handle.num_frames - 1) :
                  a <= b =>
                    ReadFramesResult(stream, handle, dec, a, b, g, ok, NoFault).last
                      = ReadFramesResult(stream, handle, FreshDec, a, b, g, ok,
                                         NoFault).last

C15_HitIffInSpan ==
    [][(calls' = calls + 1 /\ last'.op = "readFrame" /\ last'.err # "invalidIndex") =>
          /\ last'.hit <=> (/\ cache.num_frames > 0
                            /\ cache.start_frame <= last'.start
                            /\ last'.start < cache.start_frame + cache.num_frames)
          /\ ~last'.hit =>
                /\ cache'.is_grayscale = last'.gray
                /\ cache'.frame_size = FrameSize(last'.gray)
                /\ Len(cache'.frames) = cache'.num_frames * cache'.frame_size
                /\ last'.err = "decode" =>
                      (cache'.num_frames = 0 /\ ~cache'.has_frames
                         /\ cache'.frames = <<>> /\ cache'.start_frame = -1)]_vars

\* the second request on a handle was a miss that ended with a decode error
\* and left the cache empty
C15_Witness ==
    /\ last.op = "readFrame" /\ ~last.hit /\ last.err = "decode" /\ calls = 2
    /\ cache.num_frames = 0

\* a request next to the cached span, at start_frame + num_frames, was a miss
C15_WitnessEdge ==
    /\ last.op = "readFrame" /\ ~last.hit /\ last.status = "ok" /\ calls = 2
    /\ cache.start_frame = last.start /\ last.start > 0

\* The last call was a request that went into a decode: a readFrame that
\* missed the cache, or a readFrameRange, with valid frame numbers
DecodeRequest ==
    \/ last.op = "readFrame" /\ ~last.hit /\ last.err # "invalidIndex"
    \/ last.op = "readFrames" /\ last.err \notin {"invalidIndex", "invalidRange"}

\* C16: every decode request makes exactly one backward seek, to the decode
\* timestamp the index holds for its first frame; exactly one more seek, to
\* the beginning of the stream, follows if and only if the first one failed;
\* there is no other seek.
C16_SeekOnceThenFallback ==
    DecodeRequest =>
        /\ Len(last.seeks) \in {1, 2}
        /\ last.seeks[1].fn = "av_seek_frame"
        /\ last.seeks[1].flags = "AVSEEK_FLAG_BACKWARD"
        /\ last.seeks[1].ts = handle.dts[last.start + 1]
        /\ Len(last.seeks) = 2 <=> last.seeks[1].ret < 0
        /\ Len(last.seeks) = 2 =>
              (last.seeks[2].fn = "avformat_seek_file" /\ last.seeks[2].ts = 0)

\* a range decode whose backward seek failed, and a cache miss whose seek
\* went to a frame after the first
C16_Witness ==
    DecodeRequest /\ last.op = "readFrames" /\ Len(last.seeks) = 2

C16_WitnessOne ==
    DecodeRequest /\ last.op = "readFrame" /\ Len(last.seeks) = 1 /\ last.start > 0

\* An earlier request left pictures in the decoder or left it in drain mode
DecoderLeftBusy == dec.dpb # {} \/ dec.drain

\* C17: every decode flushes the decoder after the seek and before it sends
\* the first packet, so a request made while the decoder still holds pictures
\* of an earlier request, or is still in drain mode, receives and captures
\* exactly what it does with a decoder that holds nothing (stated for the
\* requests in the layout of the last one, with the seek succeeding or not).
C17_FlushBeforeDecode ==
    (handle.status = "ok" /\ DecoderLeftBusy) =>
        \A g \in {last.gray}, ok \in BOOLEAN :
            /\ \A i \in 0..(handle.num_frames - 1) :
                  ReadFrameResult(stream, handle, EmptyCache, dec, i, g, ok, NoFault)
                    = ReadFrameResult(stream, handle, EmptyCache, FreshDec, i, g, ok,
                                      NoFault)
            /\ \A a \in 0..(handle.num_frames - 1), b \in 0..(handle.num_frames - 1) :
                  a <= b =>
                    ReadFramesResult(stream, handle, dec, a, b, g, ok, NoFault)
                      = ReadFramesResult(stream, handle, FreshDec, a, b, g, ok, NoFault)

\* a range read ended in the drain and left the decoder in drain mode; a
\* request ended with a decoder error and left pictures in the decoder
C17_Witness ==
    handle.status = "ok" /\ last.op = "readFrames" /\ dec.drain

C17_WitnessHeld ==
    handle.status = "ok" /\ last.err = "decode" /\ dec.dpb # {}

\* The place the last decode began to read at, from its seeks
ReadFrom ==
    IF Len(last.seeks) = 1 THEN SeekTarget(stream, last.seeks[1].ts) ELSE 1

\* The pictures the decoder gave out during the last decode, when it
\* rejected no packet: those of the packets read that it does not hold
Received ==
    { k \in ReadFrom..(dec.pos - 1) : stream.pkts[k].vid } \ dec.dpb

\* C18: a range decode stops as soon as it has captured every frame asked
\* for: the last picture it received is one of those frames, no packet was
\* read after the one that brought that picture out (the decoder holds as
\* many pictures as it keeps back, unless the decode went through the whole
\* stream and into the drain).
C18_StopsWhenComplete ==
    (last.op = "readFrames" /\ last.status = "ok") =>
        /\ ~dec.drain => Cardinality(dec.dpb) = stream.delay
        /\ dec.drain => dec.pos = Len(stream.pkts) + 1
        /\ ~last.rejected =>
              \E p \in Received :
                 /\ \A q \in Received : ~TsLess(stream.pkts[p].pts, stream.pkts[q].pts)
                 /\ FrameIdxOf(stream.pkts[p].pts, handle.pts_increment)
                       \in last.start..last.end

\* a range read was complete before the end of the stream, with packets left
\* unread and a picture still in the decoder
C18_Witness ==
    /\ last.op = "readFrames" /\ last.status = "ok" /\ ~dec.drain
    /\ dec.pos <= Len(stream.pkts) /\ dec.dpb # {}

\* a range read became complete in the drain
C18_WitnessDrain ==
    last.op = "readFrames" /\ last.status = "ok" /\ dec.drain

\* C19: in every reader, a requested frame that is still in the decoder when
\* the stream ends is drained out of it and returned: a request for a frame of
\* the index ends with not-found only if the decoder rejected a packet.
C19_DrainAtEndOfStream ==
    (last.op \in {"readFrame", "readFrames", "readFfmpegFrame", "readH265Frame"}
       /\ last.err = "notFound") => last.rejected

----------------------------------------------------------------------------
(* Timing of the packets *)

\* The video packets whose presentation timestamp is not a multiple of inc
MisalignedPackets(st, inc) ==
    { k \in 1..Len(st.pkts) :
        st.pkts[k].vid /\ ~st.pkts[k].pts.nopts /\ st.pkts[k].pts.v % inc # 0 }

\* open came to the second pass: the stream has video packets, a frame rate
\* that divides the time base, and no open-GOP unit was found
ReachedSecondPass ==
    last.op = "open" /\ TimingValid(stream)
    /\ handle.err \notin {"openGOP", "noFrames"}

\* C20: an open that comes to build the index fails with the misaligned-timing
\* error, and gives no index, if the presentation timestamp of any video
\* packet is not an exact multiple of pts_increment.
C20_MisalignedRejected ==
    (ReachedSecondPass /\ MisalignedPackets(stream, PtsIncrementOf(stream)) # {}) =>
        /\ handle.status = "error"
        /\ handle.err = "misalignedPTS"
        /\ handle.dts = <<>>

\* open failed on a stream of two ticks per frame whose last packet is the
\* misaligned one, after packets that repeat a frame number
C20_Witness ==
    /\ ReachedSecondPass /\ handle.err = "misalignedPTS"
    /\ PtsIncrementOf(stream) = 2 /\ Len(stream.pkts) = MaxOpenPkts
    /\ MisalignedPackets(stream, 2) = {MaxOpenPkts}
    /\ stream.pkts[1].pts = stream.pkts[2].pts /\ stream.pkts[1].vid /\ stream.pkts[2].vid

----------------------------------------------------------------------------
(* The ticks of one frame *)

\* the open got as far as the divisibility test of the tick count
ReachedFrameRateTest ==
    /\ handle # NoHandleYet
    /\ stream.hasVideo
    /\ stream.fr.num # 0 /\ stream.fr.den # 0
    /\ stream.tb.num * stream.fr.num # 0

\* C21: an open that reaches the frame-rate test fails with badFrameRate
\* exactly when time_base.den * frame_rate.den is not a multiple of
\* time_base.num * frame_rate.num, and a handle it returns carries the exact
\* quotient as pts_increment.
C21_ExactQuotient ==
    ReachedFrameRateTest =>
        LET numerator == stream.tb.den * stream.fr.den
            denominator == stream.tb.num * stream.fr.num
        IN /\ (handle.err = "badFrameRate") <=>
                  (\A q \in 0..numerator : q * denominator # numerator)
           /\ handle.status = "ok" => handle.pts_increment * denominator = numerator

\* an open refused because 30 ticks do not divide into 25 frames
C21_Witness ==
    /\ ReachedFrameRateTest
    /\ handle.err = "badFrameRate"

\* an open that returned a handle with more than one tick per frame
C21_WitnessQuotient ==
    /\ ReachedFrameRateTest
    /\ handle.status = "ok"
    /\ handle.pts_increment > 1

----------------------------------------------------------------------------
(* What the calls leave allocated *)

\* C22: whenever open fails, by a defect of the stream or by a library call
\* or an allocation that fails, nothing that open acquired is still held (the
\* file name, the demuxer session, the decoder context, the packet, the two
\* index arrays, the cache) and the caller gets no handle and no index.
C22_FailedOpenHoldsNothing ==
    handle.status = "error" =>
        /\ res = {}
        /\ handle.num_frames = 0
        /\ handle.dts = <<>>

\* an open that fails with everything but the cache allocated
C22_Witness ==
    /\ handle.status = "error"
    /\ handle.err = "misalignedPTS"

\* an open that fails on the second of the two index arrays
C22_WitnessArrays ==
    /\ handle.status = "error"
    /\ handle.err = "allocArrays"

\* every failing exit of open is taken
C22_WitnessOpenGop == handle.err = "openGOP"
C22_WitnessCache == handle.err = "allocCache"
C22_WitnessMissing == handle.err = "missingPTS"
C22_WitnessNoFrames == handle.err = "noFrames"
C22_WitnessUnreadable == handle.err = "openFailed"
C22_WitnessBadRate == handle.err = "badFrameRate" /\ last.op = "open"
C22_WitnessNoVideo == handle.err = "noVideo"
C22_WitnessNoCodec == handle.err = "noCodec"

\* C23: after open, any reads and one close, nothing of the handle is still
\* held: the demuxer session, the decoder context, the cache structure and
\* the frames it caches have all been freed.
C23_ClosedHoldsNothing ==
    handle.status = "closed" => res = {}

\* what video_info keeps between the calls
HandleResources ==
    {"fmt_ctx", "codec_ctx", "cache", "cache.frame_data", "cache.frame_indices",
     "cache.frames"}

C24_WitnessNoMemory == last.op = "readFrames" /\ last.err = "allocDecode"
C24_WitnessNotFound == last.op = "readFrames" /\ last.err = "notFound"
C24_WitnessReturned == last.op = "readFrames" /\ last.status = "ok"
C24_WitnessScaler == last.op = "readH265Frame" /\ last.err = "sws"

----------------------------------------------------------------------------
(* Requests outside the index *)

\* the request just served names a frame outside 0..N-1 or an end before
\* its start
OutOfIndex(l) ==
    /\ l.op \in {"readFrame", "readFrames"}
    /\ \/ l.start < 0 \/ l.start >= handle.num_frames
       \/ l.end < 0 \/ l.end >= handle.num_frames
       \/ l.end < l.start

\* C25: a readFrame for a frame outside 0..N-1 and a readFrameRange whose
\* start or end is outside 0..N-1 or whose end is before its start fail with
\* an index error without a seek and leave the read position, the decoder
\* and the cache as they were.
C25_IndexErrorTouchesNothing ==
    [][ (calls' = calls + 1 /\ OutOfIndex(last')) =>
          /\ last'.status = "error"
          /\ last'.err \in {"invalidIndex", "invalidRange"}
          /\ last'.seeks = <<>>
          /\ last'.out = <<>>
          /\ dec' = dec
          /\ cache' = cache ]_vars

\* a range with its end before its start, asked for on a filled cache
C25_Witness ==
    /\ OutOfIndex(last)
    /\ last.op = "readFrames"
    /\ last.end < last.start
    /\ cache.has_frames

\* a frame past the last one, asked for after a read left the decoder advanced
C25_WitnessFrame ==
    /\ OutOfIndex(last)
    /\ last.op = "readFrame"
    /\ last.start = handle.num_frames
    /\ dec.pos > 1

----------------------------------------------------------------------------
(* Who writes the cache *)

\* C26: a readFrameRange leaves the GOP cache as it was, whatever it decodes
\* and however it ends, and the cache changes only in a readFrame that
\* missed.
C26_OnlyMissWritesCache ==
    [][ /\ (calls' = calls + 1 /\ last'.op = "readFrames") => cache' = cache
        /\ cache' # cache =>
             /\ last'.op = "readFrame"
             /\ ~last'.hit
             /\ last'.err # "invalidIndex" ]_vars

\* a range decoded past a cache that a readFrame had filled
C26_Witness ==
    /\ last.op = "readFrames"
    /\ last.status = "ok"
    /\ last.seeks # <<>>
    /\ cache.has_frames

----------------------------------------------------------------------------
(* What the cache holds *)

\* the picture a byte of a converted frame was taken from
PictureOfByte(b) == b \div (4 * Width * Height)

C27_WitnessFirst ==
    /\ calls = 1
    /\ FilledOnMiss

----------------------------------------------------------------------------
(* Termination *)

\* C28: on a finite stream, with a decoder that gives out each picture once
\* and then answers EAGAIN or EOF, every open, every readFrame that decodes
\* and every readFrameRange that decodes leaves its loops and returns.
C28_EveryCallReturns ==
    (run.phase \notin {"idle", "done"}) ~> (run.phase = "done")

\* a readFrame that returned after reading to the end of the stream and
\* draining the decoder
C28_Witness ==
    /\ run.phase = "done"
    /\ run.op = "readFrame"
    /\ run.drain
    /\ run.pos = Len(stream.pkts) + 1

\* a range and an open that returned
C28_WitnessRange == run.phase = "done" /\ run.op = "readFrames" /\ run.got # {}
C28_WitnessOpen == run.phase = "done" /\ run.op = "open" /\ handle.status = "ok"

----------------------------------------------------------------------------
(* Which picture is which frame *)

\* C29: a picture is taken as frame n, into the cache, into the frame that
\* readFrame returns or into the frames that readFrameRange returns, only if
\* its presentation timestamp is n x ptsIncrement exactly.
C29_ExactAttribution ==
    /\ \A i \in 0..(cache.num_frames - 1) :
          \E p \in { PictureOfByte(cache.frames[i * cache.frame_size + 1]) } :
             PresentsFrame(stream.pkts[p].pts, handle.pts_increment,
                           cache.start_frame + i)
    /\ (last.op = "readFrame" /\ last.status = "ok") =>
          \E p \in { PictureOfByte(last.out[1]) } :
             PresentsFrame(stream.pkts[p].pts, handle.pts_increment, last.start)
    /\ (last.op = "readFrames" /\ last.status = "ok") =>
          \A i \in last.start..last.end :
             \E b \in { last.out[(i - last.start) * FrameSize(last.gray) + 1] } :
                b # ZeroByte =>
                   PresentsFrame(stream.pkts[PictureOfByte(b)].pts,
                                 handle.pts_increment, i)

----------------------------------------------------------------------------
(* A keyframe crossed before the requested frame *)

\* The loop variables of decode_gop_to_cache of the last readFrame when it was
\* about to read the packet at place k
GopBefore(k) ==
    Loop(LAMBDA s, j : GopReadStep(stream, s, j, handle.pts_increment, last.start,
                                   last.gray, NoFault),
         GopStart(ReadFrom, dec), ReadFrom, k - 1)

\* The places of the keyframe packets at which the last readFrame reset its
\* accumulation: read after a first keyframe and before the requested frame
\* was captured
RestartKeys ==
    { k \in (ReadFrom + 1)..(dec.pos - 1) :
        /\ stream.pkts[k].vid /\ stream.pkts[k].key
        /\ \E g \in { GopBefore(k) } :
              g.first_keyframe_seen /\ ~g.found_target /\ ~g.stop }

\* C30: when the miss crossed a keyframe before it had captured the requested
\* frame, the cache it leaves holds no picture that presents before the last
\* such keyframe, and start_frame is the frame number of that keyframe's
\* picture.
C30_RestartFromKeyframe ==
    (FilledOnMiss /\ ~last.rejected /\ RestartKeys # {}) =>
       \E k \in { j \in RestartKeys : \A q \in RestartKeys : q <= j } :
          /\ PresentsFrame(stream.pkts[k].pts, handle.pts_increment, cache.start_frame)
          /\ \A i \in 1..Len(cache.frames) :
                ~TsLess(stream.pkts[PictureOfByte(cache.frames[i])].pts,
                        stream.pkts[k].pts)

----------------------------------------------------------------------------
(* After the close *)

\* C31: every call made on a handle that was closed is rejected before it
\* uses or releases anything: it ends with the null-pointer error (or with an
\* index error found without touching the session) and holds what was held.
C31_ClosedHandleRejected ==
    [][handle.status = "closed" =>
          /\ last'.err \in {"nullPtr", "invalidIndex", "invalidRange"}
          /\ res' = res]_vars

----------------------------------------------------------------------------
(* The cache after a miss that failed *)

\* C32: after a readFrame that missed and failed (allocation failure, decode
\* error, frame not found) the cache holds no frame, so that a readFrame of
\* any frame misses.
C32_FailedMissLeavesCacheEmpty ==
    (last.op = "readFrame" /\ ~last.hit /\ last.status = "error"
         /\ last.err # "invalidIndex") =>
       /\ cache.num_frames = 0
       /\ ~cache.has_frames
       /\ cache.frames = <<>>
       /\ \A f \in 0..(handle.num_frames - 1) : find_in_cache(cache, f) = -1

----------------------------------------------------------------------------
(* Frame numbers cut to 32 bits *)

\* C33: the packet whose decode timestamp open stored in slot i of the index
\* has the exact quotient pts / pts_increment = i, and a picture captured by
\* a range decode or stored by a miss has an exact quotient inside the range
\* asked for, or inside the index; a timestamp whose quotient is outside,
\* AV_NOPTS_VALUE included, is not taken for a frame through the cut to int.
C33_NoAliasing ==
    /\ handle.status = "ok" =>
          \A i \in 0..(handle.num_frames - 1), k \in 1..Len(stream.pkts) :
             (/\ stream.pkts[k].vid
              /\ handle.dts[i + 1] = stream.pkts[k].dts
              /\ FrameIdxOf(stream.pkts[k].pts, handle.pts_increment) = i)
                => PresentsFrame(stream.pkts[k].pts, handle.pts_increment, i)
    /\ (last.op = "readFrames" /\ last.status = "ok") =>
          \A j \in 1..Len(last.out) :
             last.out[j] # ZeroByte =>
                \E q \in last.start..last.end :
                   PresentsFrame(stream.pkts[PictureOfByte(last.out[j])].pts,
                                 handle.pts_increment, q)
    /\ \A j \in 1..Len(cache.frames) :
          \E q \in 0..(handle.num_frames - 1) :
             PresentsFrame(stream.pkts[PictureOfByte(cache.frames[j])].pts,
                           handle.pts_increment, q)

----------------------------------------------------------------------------
(* The scanner on packets of any bytes *)

\* C34: on every packet and every length size in 1..4 the scanner reads only
\* bytes of the packet, and its position stays within [0, size].
C34_ScannerInBounds ==
    scan.done =>
       /\ scan.reads \subseteq 0..(Len(scan.data) - 1)
       /\ scan.pos >= 0
       /\ scan.pos <= Len(scan.data)

----------------------------------------------------------------------------
(* Which defect open reports *)

\* The defect the order of the passes makes open report: an open-GOP unit in
\* a video packet, then no video packet, then a timestamp that is no multiple
\* of pts_increment, then a frame number without packet, then a frame number
\* with several packets
FirstDefect(st) ==
    IF st.hevc /\ \E k \in 1..Len(st.pkts) :
                     st.pkts[k].vid /\ HasOpenGopUnit(st.pkts[k].units)
    THEN "openGOP"
    ELSE IF Len(VideoPkts(st)) = 0 THEN "noFrames"
    ELSE IF MisalignedPackets(st, PtsIncrementOf(st)) # {} THEN "misalignedPTS"
    ELSE IF MissingFrames(st) # {} THEN "missingPTS"
    ELSE IF DuplicateFrames(st) # {} THEN "duplicatePTS"
    ELSE ""

\* C35: an open that comes to its passes reports the first defect of the
\* stream in the order open-GOP unit, no video frame, misaligned timestamp,
\* missing mapping, duplicate mapping, and succeeds when there is none.
C35_ReportOrder ==
    (last.op = "open" /\ TimingValid(stream)) => handle.err = FirstDefect(stream)

----------------------------------------------------------------------------
(* The timestamps of the frames written *)

\* C36: whatever write calls were made on a writer, failed ones included, the
\* k-th frame the encoder accepted has pts (k - 1) x pts_increment, and
\* next_pts is the number of accepted frames times pts_increment.
C36_WrittenPtsGapless ==
    writer.status = "ok" =>
       /\ \A k \in 1..Len(writer.accepted) :
             writer.accepted[k] = (k - 1) * writer.pts_increment
       /\ writer.next_pts = Len(writer.accepted) * writer.pts_increment

----------------------------------------------------------------------------
(* The capture bitmap, the counter and the slots of a range decode *)

\* The number of marked entries of the capture bitmap
RunMarked == Cardinality({ i \in 1..Len(run.captured) : run.captured[i] })

\* C37: at every turn of a range decode the counter equals the number of
\* marked entries and is at most the number of frames asked for; a slot is
\* marked exactly when it was written, and it was written once; the picture
\* in slot k has the timestamp (targetStart + k) x ptsIncrement, so that no
\* picture whose frame number is outside the range reached the buffer.
C37_CaptureInvariant ==
    run.op = "readFrames" =>
       /\ run.frames_captured = RunMarked
       /\ run.frames_captured <= RunWanted
       /\ \A k \in 1..Len(run.written) :
             /\ Len(run.written[k]) <= 1
             /\ run.captured[k] <=> run.written[k] # <<>>
             /\ \A j \in 1..Len(run.written[k]) :
                   PresentsFrame(stream.pkts[run.written[k][j]].pts,
                                 handle.pts_increment, run.a + k - 1)

\* the parts of it that speak of the frame number as the loop computed it
C37_Structure ==
    run.op = "readFrames" =>
       /\ run.frames_captured = RunMarked
       /\ run.frames_captured <= RunWanted
       /\ \A k \in 1..Len(run.written) :
             /\ Len(run.written[k]) <= 1
             /\ run.captured[k] <=> run.written[k] # <<>>
             /\ \A j \in 1..Len(run.written[k]) :
                   FrameIdxOf(stream.pkts[run.written[k][j]].pts,
                              handle.pts_increment) = run.a + k - 1

----------------------------------------------------------------------------
(* The two ways of finding the slot of a picture *)

\* The picture in each slot of an output array, 0 for a slot left empty
SlotPictures(buffer, frame_size) ==
    [ k \in 1..(Len(buffer) \div frame_size) |->
        PictureOfByte(buffer[(k - 1) * frame_size + 1]) ]

\* C38: a call of the reader that compares timestamps left, for the seek and
\* the decoder faults it met, the count, the capture flags and the picture in
\* each slot that decode_frame_range_rowmajor leaves for the same stream,
\* index, pts_increment and range.
C38_SameCaptures ==
    (last.op = "readH265Frames" /\ last.err \notin {"invalidIndex", "invalidRange"}) =>
       \A env \in Environments(stream) :
          \E e \in { read_h265_frames_loops(stream, handle, dec, last.start, last.end,
                         last.gray, FrameSize(last.gray), env.seek_ok, env.fault) } :
             (e.ret = last.captured /\ e.seeks = last.seeks /\ e.dec = dec
              /\ e.rejected = last.rejected) =>
                \E r \in { decode_frame_range_rowmajor(stream, handle, dec, last.start,
                               last.end, last.gray, FrameSize(last.gray),
                               env.seek_ok, env.fault) } :
                   /\ r.ret = e.ret
                   /\ r.captured = e.captured
                   /\ SlotPictures(r.frame_buffer, FrameSize(last.gray))
                        = SlotPictures(e.frame_buffer, FrameSize(last.gray))

----------------------------------------------------------------------------
(* The divisors of open *)

\* C39: an open that succeeded has pts_increment >= 1, and no open reached a
\* remainder or a quotient whose divisor is zero, whatever time base the
\* stream has and whatever frame rate passed the check of its two parts
\* against zero.
C39_IncrementPositive ==
    /\ handle.status = "ok" => handle.pts_increment >= 1
    /\ handle.err # "divideByZero"

====
